---- MODULE Spec2Model ----
(***************************************************************************)
(* Model of the power-loss-recovery module src/pfprs.py (PowerLossRecovery):*)
(* the checkpoint scheduler (_background_task, the layer / extruder event   *)
(* handlers, _save_current_state), the delay selector, the adaptive         *)
(* interval, the validator, and the resume file rewriter                    *)
(* (_modify_gcode_file, _restore_original_gcode).                           *)
(*                                                                          *)
(* Conventions.                                                             *)
(*  - Time is in whole seconds (reactor.monotonic() sampled on a 1 s grid). *)
(*    Intervals and timer wake times are rationals with the fixed           *)
(*    denominator IntervalScale, kept as their numerators.                  *)
(*  - A Python value is a tagged record [ty |-> <type name>, v |-> value],  *)
(*    so that isinstance checks and None are expressible.  A float is kept  *)
(*    as an integer number of its field's unit: mm and degrees C are whole  *)
(*    units, progress_pct is in hundredths of a percent (round(_, 2)).      *)
(*  - File contents are strings; a byte is one character.                   *)
(***************************************************************************)
EXTENDS Integers, Sequences, FiniteSets, TLC

-----------------------------------------------------------------------------
(* Python values *)

PyNone == [ty |-> "NoneType"]

PyInt(n) == [ty |-> "int", v |-> n]

\* True and False; bool is a subclass of int, with the values 1 and 0.
PyBool(b) == [ty |-> "bool", v |-> IF b THEN 1 ELSE 0]

PyFloat(n) == [ty |-> "float", v |-> n]

PyStr(s) == [ty |-> "str", v |-> s]

PyDict(d) == [ty |-> "dict", v |-> d]

IsInstance(val, types) == val.ty \in types \/ (val.ty = "bool" /\ "int" \in types)

Min(a, b) == IF a <= b THEN a ELSE b

Max(a, b) == IF a >= b THEN a ELSE b

Abs(a) == IF a >= 0 THEN a ELSE -a

\* Python's int(a / b) for b > 0: truncation toward zero.
TruncDiv(a, b) == IF a >= 0 THEN a \div b ELSE -((-a) \div b)

-----------------------------------------------------------------------------
(* Bounds of the model *)

\* The clock stops advancing at MaxTime.
MaxTime == 6

\* The consecutive-failure counter is not incremented beyond MaxFailures.
MaxFailures == 3

\* An event handler registers a further timer only while fewer than
\* MaxTimers are pending.
MaxTimers == 2

\* At most MaxEvents events and commands arrive from outside (layer changes,
\* extruder activations, operator commands, job state changes).
MaxEvents == 3

\* At most MaxFaults times a provider, the store, a snapshot or a file
\* operation is faulty.
MaxFaults == 1

\* A failing write of the rewrite happens after at most MaxWritten writes.
MaxWritten == 3

\* The saved file positions explored are 0 .. MaxOffset.
MaxOffset == 6

\* The lags explored for the delay selector on its own are -MaxLag .. MaxLag,
\* the history sizes 2 .. MaxHistory.
MaxLag == 13

MaxHistory == 4

\* The adaptive interval on its own is called 0 .. MaxSince seconds after the
\* last extruder change.
MaxSince == 21

\* The numbers above FloatMax stand for the integers beyond the largest
\* double (about 1.8e308), which float() does not convert; every range cap
\* of the validator lies below it.
FloatMax == 1000

-----------------------------------------------------------------------------
(* Configuration read by __init__ *)

\* extruders = config.get('extruders', 'extruder'), split on commas.
extruders == {"extruder"}

\* The file being printed: print_stats' filename, relative to the gcode directory.
GcodeFile == "a.gcode"

\* The configurations explored, <<history_size, save_interval, save_delay>>:
\*   history_size = config.getint('history_size', 5, minval=2, maxval=20)
\*   save_interval = config.getfloat('save_interval', 30., minval=0., maxval=300.)
\*   save_delay = config.getint('save_delay', 2, minval=0, maxval=history_size - 1)
Configs == {<<2, 6, 0>>, <<2, 6, 1>>, <<2, 0, 1>>, <<3, 6, 0>>, <<3, 6, 2>>}

-----------------------------------------------------------------------------
(* _verify_state *)

NUMBER == {"float", "int"}

\* required_fields, in the dictionary's iteration order.
required_fields ==
    << [field |-> "position", type |-> {"dict"},
        subfields |-> << <<"x", NUMBER>>, <<"y", NUMBER>>, <<"z", NUMBER>> >>],
       [field |-> "layer", type |-> {"int"}, subfields |-> << >>],
       [field |-> "layer_height", type |-> NUMBER, subfields |-> << >>],
       [field |-> "file_progress", type |-> {"dict"},
        subfields |-> << <<"position", {"int"}>>, <<"total_size", {"int"}>>,
                         <<"progress_pct", NUMBER>> >>],
       [field |-> "collection_time", type |-> NUMBER, subfields |-> << >>],
       [field |-> "save_time", type |-> NUMBER, subfields |-> << >>],
       [field |-> "hotend_temp", type |-> NUMBER, subfields |-> << >>],
       [field |-> "bed_temp", type |-> NUMBER, subfields |-> << >>],
       [field |-> "chamber_temp", type |-> NUMBER, subfields |-> << >>],
       [field |-> "active_extruder", type |-> {"str"}, subfields |-> << >>] >>

\* The error of one subfield of a dict-typed field, "" if none.
SubfieldError(d, field, sub) ==
    IF sub[1] \notin DOMAIN d.v
    THEN "Missing subfield " \o sub[1] \o " in " \o field
    ELSE IF ~IsInstance(d.v[sub[1]], sub[2])
         THEN "Subfield " \o sub[1] \o " in " \o field \o " has wrong type"
         ELSE ""

\* The error of one required field (presence, type, then subfields in order).
FieldError(st, req) ==
    IF req.field \notin DOMAIN st
    THEN "Missing required field: " \o req.field
    ELSE IF ~IsInstance(st[req.field], req.type)
         THEN "Field " \o req.field \o " has wrong type"
         ELSE LET subs == req.subfields
                  bad == {i \in 1 .. Len(subs) :
                             SubfieldError(st[req.field], req.field, subs[i]) # ""}
              IN  IF bad = {} THEN ""
                  ELSE SubfieldError(st[req.field], req.field,
                                     subs[CHOOSE i \in bad : \A j \in bad : i <= j])

\* Temperatures are whole degrees; -273.15 <= t is compared in hundredths.
TempInRange(t, cap) == -27315 <= t * 100 /\ t <= cap

\* float(val) raises OverflowError for an int beyond the largest double.
FloatOverflows(val) == val.ty = "int" /\ Abs(val.v) > FloatMax

\* The exception in place of an error message.
OverflowError == "OverflowError: int too large to convert to float"

\* The logical constraints checked after the field loop, in order.
ConstraintError(st) ==
    IF st.file_progress.v.total_size.v < 0
    THEN "File size cannot be negative"
    ELSE IF ~(0 <= st.file_progress.v.progress_pct.v
              /\ st.file_progress.v.progress_pct.v <= 100 * 100)
    THEN "Progress percentage must be between 0 and 100"
    ELSE IF st.layer.v < 0
    THEN "Layer number cannot be negative"
    ELSE IF FloatOverflows(st.hotend_temp)
    THEN OverflowError
    ELSE IF ~TempInRange(st.hotend_temp.v, 500)
    THEN "Hotend temperature out of reasonable range"
    ELSE IF FloatOverflows(st.bed_temp)
    THEN OverflowError
    ELSE IF ~TempInRange(st.bed_temp.v, 200)
    THEN "Bed temperature out of reasonable range"
    ELSE IF FloatOverflows(st.chamber_temp)
    THEN OverflowError
    ELSE IF ~TempInRange(st.chamber_temp.v, 100)
    THEN "Chamber temperature out of reasonable range"
    ELSE IF st.active_extruder.v \notin extruders
    THEN "Active extruder " \o st.active_extruder.v
             \o " not in configured extruders list"
    ELSE ""

\* _verify_state: the first violated rule, "" when the state is valid,
\* OverflowError when it raises.
VerifyError(state) ==
    IF state.ty # "dict"
    THEN "State must be a dictionary"
    ELSE LET bad == {i \in 1 .. Len(required_fields) :
                        FieldError(state.v, required_fields[i]) # ""}
         IN  IF bad # {}
             THEN FieldError(state.v,
                             required_fields[CHOOSE i \in bad : \A j \in bad : i <= j])
             ELSE ConstraintError(state.v)

\* The validity callers test; a caller's try block absorbs the exception.
_verify_state(state) == VerifyError(state) = ""

\* What a call returns: (is_valid, error_message), unless it raised.
VerifyResult(state) ==
    LET error == VerifyError(state)
    IN  [is_valid |-> error = "",
         error_message |-> IF error \in {"", OverflowError} THEN PyNone ELSE PyStr(error),
         raised |-> error = OverflowError]

-----------------------------------------------------------------------------
(* _optimize_background_interval *)

\* Denominator of intervals and wake times: 200 for the extruder factor
\* (0.3 + t/20 * 0.7 = (60 + 7 t) / 200), 16 for two factors of 0.75.
IntervalScale == 200 * 16

\* sum(abs(new.position[axis] - old.position[axis]) for axis in x, y, z)
pos_change(old, new) ==
    Abs(new.v.position.v.x.v - old.v.position.v.x.v)
  + Abs(new.v.position.v.y.v - old.v.position.v.y.v)
  + Abs(new.v.position.v.z.v - old.v.position.v.z.v)

\* abs(new.hotend_temp - old.hotend_temp)
temp_change(old, new) == Abs(new.v.hotend_temp.v - old.v.hotend_temp.v)

\* reduction_factor * 200: 1.0, or the extruder factor within 20 s of a change.
reduction_factor(time_since_extruder_change) ==
    IF time_since_extruder_change < 20
    THEN Min(200, 60 + 7 * time_since_extruder_change)
    ELSE 200

\* 5.0 by default, 3.0 within 5 s of an extruder change (times IntervalScale).
min_interval(time_since_extruder_change) ==
    IF time_since_extruder_change < 5 THEN 3 * IntervalScale ELSE 5 * IntervalScale

\* The interval after the two 0.75 factors for recent movement / temperature.
ActivityScaled(interval, hist) ==
    IF Len(hist) >= 2
    THEN LET old == hist[Len(hist) - 1]
             new == hist[Len(hist)]
             i1 == IF pos_change(old, new) > 10 THEN (interval * 3) \div 4 ELSE interval
         IN  IF temp_change(old, new) > 5 THEN (i1 * 3) \div 4 ELSE i1
    ELSE interval

\* _optimize_background_interval, times IntervalScale.
OptimizeBackgroundInterval(base, current_time, last_extruder_change, hist) ==
    LET since == current_time - last_extruder_change
        interval == base * reduction_factor(since) * 16
    IN  Max(ActivityScaled(interval, hist), min_interval(since))

-----------------------------------------------------------------------------
(* _calculate_optimal_delay *)

\* Mutant of needed_intervals: the quotient is rounded up, so a lag that is an
\* exact multiple of the interval gets no extra interval.
needed_intervals_ceil(mcu_lag, interval) ==
    Max(1, TruncDiv(mcu_lag + interval - 1, interval))

\* max(1, int(mcu_lag / save_interval) + 1)
needed_intervals(mcu_lag, interval) == Max(1, TruncDiv(mcu_lag, interval) + 1)

\* Mutant of CalculateOptimalDelay: the result is not capped.
CalculateOptimalDelayUncapped(lag, interval, hsize, sdelay) ==
    IF ~lag.ok \/ interval = 0
    THEN sdelay
    ELSE needed_intervals(lag.v, interval)

\* Mutant of CalculateOptimalDelay: the except clause returns one interval.
CalculateOptimalDelayOrOne(lag, interval, hsize, sdelay) ==
    IF ~lag.ok \/ interval = 0
    THEN 1
    ELSE Min(needed_intervals(lag.v, interval), hsize - 1)

\* lag = [ok |-> the toolhead / mcu lookups succeeded, v |-> print_time -
\* est_print_time].  A failed lookup or a division by a zero save_interval
\* raises, and the handler returns the configured save_delay.
CalculateOptimalDelay(lag, interval, hsize, sdelay) ==
    IF ~lag.ok \/ interval = 0
    THEN sdelay
    ELSE Min(needed_intervals(lag.v, interval), hsize - 1)

-----------------------------------------------------------------------------
(* _collect_current_state *)

\* round(file_position / file_size * 100, 2) in hundredths of a percent, or
\* the integer 0 when file_size is not positive.
ProgressPct(file_position, file_size) ==
    IF file_size > 0
    THEN PyFloat((file_position * 10000 * 2 + file_size) \div (2 * file_size))
    ELSE PyInt(0)

\* fan_speeds: one entry per configured fan (the domain of fans) whose lookup
\* and get_status succeed; a fan that raises is logged and left out.
FanSpeeds(fans) ==
    IF DOMAIN fans = {}
    THEN PyDict(<< >>)
    ELSE PyDict([f \in {g \in DOMAIN fans : fans[g].ok} |-> PyFloat(fans[f].speed)])

\* rd: what the providers return at eventtime; rd.ok = FALSE when one raises.
CollectCurrentState(eventtime, rd, layer, z_height) ==
    IF ~rd.ok
    THEN PyNone
    ELSE PyDict(
      [position |-> PyDict([x |-> PyFloat(rd.x), y |-> PyFloat(0), z |-> PyFloat(rd.z)]),
       xyz_offsets |-> PyDict([x |-> PyFloat(0), y |-> PyFloat(0), z |-> PyFloat(0)]),
       fan_speeds |-> FanSpeeds(rd.fans),
       layer |-> layer,
       layer_height |-> PyFloat(z_height),
       file_progress |-> PyDict(
           [position |-> PyInt(rd.file_position),
            total_size |-> PyInt(rd.file_size),
            progress_pct |-> ProgressPct(rd.file_position, rd.file_size)]),
       active_extruder |-> PyStr(rd.active_extruder),
       hotend_temp |-> PyFloat(rd.hotend_temp),
       bed_temp |-> PyFloat(rd.bed_temp),
       chamber_temp |-> PyFloat(rd.chamber_temp),
       save_time |-> PyFloat(eventtime),
       current_file |-> PyStr(rd.filename),
       collection_time |-> PyFloat(eventtime)])

\* _get_move_buffer_status: the mcu summary, zeros when the lookup raises.
GetMoveBufferStatus(moves_pending) ==
    PyDict([moves_pending |-> PyInt(moves_pending),
            min_move_time |-> PyInt(0),
            max_move_time |-> PyInt(0)])

\* state_to_save['mcu_status'] = buffer_status
WithMcuStatus(state, status) ==
    PyDict([k \in DOMAIN state.v \cup {"mcu_status"} |->
               IF k = "mcu_status" THEN status ELSE state.v[k]])

\* The snapshot as collected: without the key the save attaches.
AsCollected(state) ==
    PyDict([k \in DOMAIN state.v \ {"mcu_status"} |-> state.v[k]])

-----------------------------------------------------------------------------
(* State *)

VARIABLES
    \* configuration, fixed by __init__
    history_size, save_interval, save_delay,
    \* the number of outside events and commands a behaviour may contain
    event_budget,
    \* environment: reactor.monotonic() and print_stats' state == 'printing'
    now, printing,
    \* when the job that is printing entered the 'printing' state; kept only
    \* for a job that started while the history held snapshots (0 otherwise:
    \* then every snapshot is younger than the job)
    print_start_time,
    \* the object's fields
    state_history, is_active, last_save_time, last_layer, current_z_height,
    _last_extruder_change_time, _consecutive_failures, _last_save_attempt,
    power_loss_recovery_enabled, resuming_print,
    \* the save_variables store's resume_meta_info (PyNone: never written)
    persisted,
    \* the reactor's timers running _background_task: their wake times
    timers,
    \* what the save attempt of the most recent handler did
    last_save,
    \* the number of events and commands that have arrived from outside
    events,
    \* the number of faulty readings and failed store writes so far
    faults,
    \* the gcode directory: file name -> [exists, data]
    files,
    \* configuration of the resume: the restart_gcode lines, chamber_heater
    restart_gcode_lines, chamber_heater_name,
    \* what the most recent PLR_RESUME_PRINT did
    last_resume,
    \* the file name of the completion notification just handled, if any
    notified,
    \* the most recent call of _calculate_optimal_delay on its own
    delay_call,
    \* the most recent call of _optimize_background_interval on its own
    interval_call,
    \* the most recent call of _verify_state on its own
    verify_call,
    \* the most recent call of _collect_current_state on its own
    collect_call,
    \* the most recent response to the operator (gcmd.respond_info)
    response,
    \* the callbacks the reactor has entered and not left, with the position
    \* each has reached (empty where a callback is one step)
    running

config == <<history_size, save_interval, save_delay, event_budget>>

fields == <<state_history, is_active, last_save_time, last_layer, current_z_height,
            _last_extruder_change_time, _consecutive_failures, _last_save_attempt,
            power_loss_recovery_enabled, resuming_print>>

rewriter == <<files, restart_gcode_lines, chamber_heater_name, last_resume, notified>>

calls == <<delay_call, interval_call, verify_call, collect_call, running>>

vars == <<config, now, printing, print_start_time, fields, persisted, timers, last_save, events, faults,
          rewriter, calls, response>>

\* One more event or command arrives.
Arrive == events < event_budget /\ events' = events + 1

\* What a handler delivers to the operator with gcmd.respond_info: the lines
\* of the message; raised: the handler ended with an exception instead.
NoResponse == [command |-> "none", lines |-> << >>, raised |-> FALSE]

Respond(command, lines) == [command |-> command, lines |-> lines, raised |-> FALSE]

\* One more fault happens.
Fault == faults < MaxFaults /\ faults' = faults + 1

\* n more faults happen.
Faults(n) == faults + n <= MaxFaults /\ faults' = faults + n

\* time_based_enabled = save_interval > 0
time_based_enabled == save_interval > 0

\* save_on_layer = config.getboolean('save_on_layer', True)
save_on_layer == TRUE

-----------------------------------------------------------------------------
(* Inputs of the handlers *)

\* Provider readings of one collection.
Reading(x, ext) ==
    [ok |-> TRUE, x |-> x, z |-> 1, file_position |-> 40, file_size |-> 100,
     active_extruder |-> ext, hotend_temp |-> 200, bed_temp |-> 60,
     chamber_temp |-> 30, filename |-> GcodeFile, fans |-> << >>]

\* The toolhead's x positions read.
PositionsX == {0}

Readings ==
    {[ok |-> FALSE]}
    \cup {Reading(x, ext) : x \in PositionsX, ext \in {"extruder", "extruder1"}}

\* print_time - est_print_time in seconds, or the lookups fail.
LagValues == {0, 2, 7}

Lags == {[ok |-> FALSE, v |-> 0]} \cup {[ok |-> TRUE, v |-> l] : l \in LagValues}

\* What a save attempt reads: the lag, the mcu's pending moves, and whether
\* the SAVE_VARIABLE command succeeds.
SaveInputs == [lag : Lags, moves_pending : {2}, store_ok : BOOLEAN]

\* The inputs of a handler whose save attempt reads nothing.
QuietInput == [lag |-> [ok |-> TRUE, v |-> 0], moves_pending |-> 2, store_ok |-> TRUE]

\* A reading that fails or yields an invalid snapshot / a store write that fails.
FaultyReading(rd) == IF rd.ok /\ rd.active_extruder \in extruders THEN 0 ELSE 1

FaultyStore(inp) == IF inp.store_ok THEN 0 ELSE 1

\* A failing store write is a fault; it is an input only of an attempt that
\* reaches the write.
SaveFaults(saved, inp) ==
    /\ inp.store_ok \/ saved.result.outcome = "store_error"
    /\ Faults(FaultyStore(inp))

\* Mutant of SaveSkipped: the enabled flag is not consulted.
SaveSkippedIgnoringDisabled(active) == ~active \/ resuming_print

\* The first checks of _save_current_state: not active, a resume in
\* progress, or power loss recovery disabled.
SaveSkipped(active) == ~active \/ resuming_print \/ ~power_loss_recovery_enabled

\* The inputs to enumerate for a save attempt: nothing is read when the
\* attempt returns at one of its first three checks.
InputsOfSave(active) ==
    IF SaveSkipped(active)
    THEN {QuietInput} ELSE SaveInputs

\* LAYER and LAYER_HEIGHT of PLR_SAVE_PRINT_STATE_WITH_LAYER (None: not given).
LayerArgs == {<<PyNone, PyNone>>, <<PyInt(1), PyFloat(2)>>}

-----------------------------------------------------------------------------
(* state_history: deque(maxlen = history_size) *)

\* Mutant of DequeAppend: a deque without maxlen.
DequeAppendUnbounded(hist, state, maxlen) == Append(hist, state)

\* deque.append: the oldest entry is dropped when the deque is full.
DequeAppend(hist, state, maxlen) ==
    IF Len(hist) >= maxlen THEN Append(Tail(hist), state) ELSE Append(hist, state)

-----------------------------------------------------------------------------
(* _save_current_state *)

NoAttempt == [outcome |-> "none", delay |-> 0, lag |-> [ok |-> FALSE, v |-> 0]]

\* Mutant of EnoughHistory: >= in place of >.
EnoughHistoryOffByOne(hist, optimal_delay) == Len(hist) >= optimal_delay

\* len(self.state_history) > optimal_delay
EnoughHistory(hist, optimal_delay) == Len(hist) > optimal_delay

\* The index (1 = oldest) of history_list[-(self.save_delay + 1)]; 0 when
\* the expression raises IndexError.
SelectedIndex(hist, sdelay) ==
    IF sdelay + 1 > Len(hist) THEN 0 ELSE Len(hist) - sdelay

\* Mutant of StoreError: the failed attempt is recorded as a save.
StoreErrorStamped(unchanged, hist2) ==
    [unchanged EXCEPT !.history = hist2, !.last_save_time = now]

\* SAVE_VARIABLE raises: the except clause of _save_current_state logs it;
\* the statements after the command are not reached.  The selected history
\* entry already carries the mcu_status.
StoreError(unchanged, hist2) == [unchanged EXCEPT !.history = hist2]

\* The effect of _save_current_state on (state_history, persisted,
\* last_save_time, _consecutive_failures), and what it did.
SaveCurrentState(active, hist, pers, lst, cf, inp) ==
    LET same(outcome, d) ==
            [history |-> hist, persisted |-> pers, last_save_time |-> lst, cf |-> cf,
             result |-> [NoAttempt EXCEPT !.outcome = outcome, !.delay = d]]
        optimal_delay == CalculateOptimalDelay(inp.lag, save_interval, history_size, save_delay)
    IN
    IF SaveSkipped(active)
    THEN [history |-> hist, persisted |-> pers, last_save_time |-> lst, cf |-> cf,
          result |-> [NoAttempt EXCEPT !.outcome = "skipped"]]
    ELSE IF ~EnoughHistory(hist, optimal_delay)
    THEN same("insufficient", optimal_delay)
    ELSE IF SelectedIndex(hist, save_delay) = 0
    THEN same("index_error", optimal_delay)
    ELSE LET idx == SelectedIndex(hist, save_delay)
             state_to_save == WithMcuStatus(hist[idx], GetMoveBufferStatus(inp.moves_pending))
             hist2 == [hist EXCEPT ![idx] = state_to_save]
         IN  IF ~_verify_state(state_to_save)
             THEN [same("invalid", optimal_delay) EXCEPT !.history = hist2]
             ELSE IF ~inp.store_ok
             THEN StoreError(same("store_error", optimal_delay), hist2)
             ELSE [history |-> hist2, persisted |-> state_to_save,
                   last_save_time |-> now, cf |-> 0,
                   result |-> [outcome |-> "saved", delay |-> optimal_delay,
                               lag |-> inp.lag]]

-----------------------------------------------------------------------------
(* _background_task *)

RECURSIVE Pow2(_)
Pow2(n) == IF n = 0 THEN 1 ELSE 2 * Pow2(n - 1)

\* Mutant of Backoff: no back-off.
BackoffNone(consecutive_failures) == 0

\* backoff = min(30, 2 ** consecutive_failures)
Backoff(consecutive_failures) == Min(30, Pow2(consecutive_failures))

\* Mutant of ShouldAppend: the collected snapshot is appended unverified.
ShouldAppendUnverified(current_state) == current_state # PyNone

\* The snapshot is appended only if it was collected and passes _verify_state.
ShouldAppend(current_state) == current_state # PyNone /\ _verify_state(current_state)

\* Mutant of ShouldSave: the time-based decision is left out.
ShouldSaveUntimed(eventtime, interval, consecutive_failures, last_save_attempt) ==
    ~(consecutive_failures > 0
      /\ eventtime - last_save_attempt < Backoff(consecutive_failures))

\* should_save: the time-based decision, then the backoff.
ShouldSave(eventtime, interval, consecutive_failures, last_save_attempt) ==
    /\ time_based_enabled
    /\ (eventtime - last_save_time) * IntervalScale >= interval
    /\ ~(consecutive_failures > 0
         /\ eventtime - last_save_attempt < Backoff(consecutive_failures))

\* Mutant of Poll: the tick returns eventtime itself.
PollNow(i, eventtime) == [timers EXCEPT ![i] = eventtime * IntervalScale]

\* The next wake time of a tick that only polls: eventtime + 1.0.
Poll(i, eventtime) == [timers EXCEPT ![i] = (eventtime + 1) * IntervalScale]

\* Timer i is due.
Due(i) == i \in 1 .. Len(timers) /\ timers[i] <= now * IntervalScale

\* The print_stats lookup raises: the handler's own except clause returns
\* eventtime + 1.0.
BackgroundTaskError(i) ==
    /\ Due(i)
    /\ Fault
    /\ timers' = Poll(i, now)
    /\ last_save' = NoAttempt
    /\ UNCHANGED <<config, rewriter, calls, response, now, printing, print_start_time, fields, persisted, events>>

\* The job is not printing.
BackgroundTaskIdle(i) ==
    /\ Due(i)
    /\ ~printing
    /\ is_active' = FALSE
    /\ timers' = Poll(i, now)
    /\ last_save' = NoAttempt
    /\ UNCHANGED <<config, rewriter, calls, response, now, printing, print_start_time, state_history, last_save_time, last_layer,
                   current_z_height, _last_extruder_change_time, _consecutive_failures,
                   _last_save_attempt, power_loss_recovery_enabled, resuming_print,
                   persisted, events, faults>>

\* The job is printing and power loss recovery is disabled: the handler
\* returns before consecutive_failures is stored.
BackgroundTaskDisabled(i) ==
    /\ Due(i)
    /\ printing
    /\ ~power_loss_recovery_enabled
    /\ is_active' = TRUE
    /\ state_history' = IF ~is_active THEN << >> ELSE state_history
    /\ timers' = Poll(i, now)
    /\ last_save' = NoAttempt
    /\ UNCHANGED <<config, rewriter, calls, response, now, printing, print_start_time, last_save_time, last_layer,
                   current_z_height, _last_extruder_change_time, _consecutive_failures,
                   _last_save_attempt, power_loss_recovery_enabled, resuming_print,
                   persisted, events, faults>>

\* The job is printing and power loss recovery is enabled: collect, decide,
\* save.  rd: the providers' readings; inp: what a save attempt reads.
BackgroundTaskActive(i, rd) ==
    /\ Due(i)
    /\ printing
    /\ power_loss_recovery_enabled
    /\ \E current_state \in {CollectCurrentState(now, rd, last_layer, current_z_height)} :
       \E valid \in {ShouldAppend(current_state)} :
       LET eventtime == now
           started == ~is_active
           hist1 == IF started THEN << >> ELSE state_history
           cf1 == IF started THEN 0 ELSE _consecutive_failures
           hist2 == IF valid
                    THEN DequeAppend(hist1, current_state, history_size) ELSE hist1
           cf2 == IF current_state = PyNone THEN cf1 ELSE IF valid THEN 0 ELSE cf1 + 1
       IN
       \E interval \in {OptimizeBackgroundInterval(save_interval, now,
                                               _last_extruder_change_time, hist2)} :
       \E should_save \in {ShouldSave(eventtime, interval, cf2, _last_save_attempt)} :
       /\ cf2 <= MaxFailures
       /\ is_active' = TRUE
       /\ IF should_save
          THEN \E inp \in SaveInputs :
               \E saved \in {SaveCurrentState(TRUE, hist2, persisted, last_save_time, cf2, inp)} :
               /\ inp.store_ok \/ saved.result.outcome = "store_error"
               /\ Faults(FaultyReading(rd) + FaultyStore(inp))
               /\ _last_save_attempt' = eventtime
               /\ state_history' = saved.history
               /\ persisted' = saved.persisted
               /\ last_save_time' = saved.last_save_time
               /\ last_save' = saved.result
          ELSE /\ Faults(FaultyReading(rd))
               /\ state_history' = hist2
               /\ last_save' = NoAttempt
               /\ UNCHANGED <<_last_save_attempt, persisted, last_save_time>>
       \* self._consecutive_failures = consecutive_failures, after the save
       /\ _consecutive_failures' = cf2
       \* the second _optimize_background_interval call reads the same clock,
       \* positions and temperatures as the first
       /\ timers' = IF ~time_based_enabled
                    THEN Poll(i, eventtime)
                    ELSE [timers EXCEPT ![i] = eventtime * IntervalScale + interval]
    /\ UNCHANGED <<config, rewriter, calls, response, now, printing, print_start_time, last_layer, current_z_height,
                   _last_extruder_change_time, power_loss_recovery_enabled,
                   resuming_print, events>>

\* _background_task, run by timer i.
BackgroundTask(i) ==
    \/ BackgroundTaskError(i)
    \/ BackgroundTaskIdle(i)
    \/ BackgroundTaskDisabled(i)
    \/ \E rd \in Readings : BackgroundTaskActive(i, rd)

Tick == \E i \in 1 .. Len(timers) : BackgroundTask(i)

-----------------------------------------------------------------------------
(* Event handlers and commands *)

\* reactor.register_timer(self._background_task, self.reactor.monotonic())
RegisterTimer ==
    IF is_active /\ time_based_enabled
    THEN Append(timers, now * IntervalScale)
    ELSE timers

\* Room for the timer the handler may register.
TimerRoom == ~(is_active /\ time_based_enabled) \/ Len(timers) < MaxTimers

\* _handle_layer_change (PLR_SAVE_PRINT_STATE_WITH_LAYER)
HandleLayerChange(layer, layer_height, inp) ==
    /\ save_on_layer /\ is_active
    /\ TimerRoom
    /\ Arrive
    /\ response' = NoResponse
    /\ \E saved \in {SaveCurrentState(is_active, state_history, persisted, last_save_time,
                                      _consecutive_failures, inp)} :
       /\ SaveFaults(saved, inp)
       /\ last_layer' = layer
       /\ current_z_height' = IF layer_height # PyNone THEN layer_height.v ELSE current_z_height
       /\ state_history' = saved.history
       /\ persisted' = saved.persisted
       /\ last_save_time' = saved.last_save_time
       /\ _consecutive_failures' = saved.cf
       /\ last_save' = saved.result
       /\ timers' = RegisterTimer
       /\ UNCHANGED <<config, rewriter, calls, now, printing, print_start_time, is_active, _last_extruder_change_time,
                      _last_save_attempt, power_loss_recovery_enabled, resuming_print>>

LayerChange ==
    \E args \in LayerArgs, inp \in InputsOfSave(is_active) :
        HandleLayerChange(args[1], args[2], inp)

\* _handle_activate_extruder
HandleActivateExtruder(inp) ==
    /\ is_active
    /\ TimerRoom
    /\ Arrive
    /\ response' = NoResponse
    /\ \E saved \in {SaveCurrentState(is_active, state_history, persisted, last_save_time,
                                      _consecutive_failures, inp)} :
       /\ SaveFaults(saved, inp)
       /\ _last_extruder_change_time' = now
       /\ state_history' = saved.history
       /\ persisted' = saved.persisted
       /\ last_save_time' = saved.last_save_time
       /\ _consecutive_failures' = saved.cf
       /\ last_save' = saved.result
       /\ timers' = RegisterTimer
       /\ UNCHANGED <<config, rewriter, calls, now, printing, print_start_time, is_active, last_layer, current_z_height,
                      _last_save_attempt, power_loss_recovery_enabled, resuming_print>>

ActivateExtruder == \E inp \in InputsOfSave(is_active) : HandleActivateExtruder(inp)

\* cmd_PLR_SAVE_PRINT_STATE
cmd_PLR_SAVE_PRINT_STATE(inp) ==
    /\ Arrive
    /\ response' = Respond("PLR_SAVE_PRINT_STATE", <<"Printer state saved">>)
    /\ \E saved \in {SaveCurrentState(is_active, state_history, persisted, last_save_time,
                                      _consecutive_failures, inp)} :
       /\ SaveFaults(saved, inp)
       /\ state_history' = saved.history
       /\ persisted' = saved.persisted
       /\ last_save_time' = saved.last_save_time
       /\ _consecutive_failures' = saved.cf
       /\ last_save' = saved.result
       /\ UNCHANGED <<config, rewriter, calls, now, printing, print_start_time, is_active, last_layer, current_z_height,
                      _last_extruder_change_time, _last_save_attempt,
                      power_loss_recovery_enabled, resuming_print, timers>>

ForceSave == \E inp \in InputsOfSave(is_active) : cmd_PLR_SAVE_PRINT_STATE(inp)

\* cmd_PLR_RESET_PRINT_DATA -> _reset_state; store_ok = FALSE when the
\* SAVE_VARIABLE command raises.
_reset_state(store_ok) ==
    /\ Arrive
    /\ response' = Respond("PLR_RESET_PRINT_DATA", <<"PowerLossRecovery: All saved state data cleared">>)
    /\ IF store_ok THEN Faults(0) ELSE Faults(1)
    /\ IF store_ok
       THEN /\ persisted' = PyDict(<< >>)
            /\ last_layer' = PyInt(0)
            /\ last_save_time' = 0
       ELSE UNCHANGED <<persisted, last_layer, last_save_time>>
    /\ last_save' = NoAttempt
    /\ UNCHANGED <<config, rewriter, calls, now, printing, print_start_time, state_history, is_active, current_z_height,
                   _last_extruder_change_time, _consecutive_failures, _last_save_attempt,
                   power_loss_recovery_enabled, resuming_print, timers>>

Reset == \E store_ok \in BOOLEAN : _reset_state(store_ok)

\* cmd_PLR_ENABLE
cmd_PLR_ENABLE ==
    /\ Arrive
    /\ response' = Respond("PLR_ENABLE", <<"Power loss recovery enabled">>)
    /\ Faults(0)
    /\ power_loss_recovery_enabled' = TRUE
    /\ UNCHANGED <<config, rewriter, calls, now, printing, print_start_time, state_history, is_active, last_save_time,
                   last_layer, current_z_height, _last_extruder_change_time,
                   _consecutive_failures, _last_save_attempt, resuming_print,
                   persisted, timers, last_save>>

\* cmd_PLR_DISABLE
cmd_PLR_DISABLE ==
    /\ Arrive
    /\ response' = Respond("PLR_DISABLE", <<"Power loss recovery disabled">>)
    /\ Faults(0)
    /\ power_loss_recovery_enabled' = FALSE
    /\ UNCHANGED <<config, rewriter, calls, now, printing, print_start_time, state_history, is_active, last_save_time,
                   last_layer, current_z_height, _last_extruder_change_time,
                   _consecutive_failures, _last_save_attempt, resuming_print,
                   persisted, timers, last_save>>

\* str(bool)
BoolStr(b) == IF b THEN "True" ELSE "False"

\* The status lines cmd_PLR_QUERY_SAVED_STATE builds in its local list msg.
StatusLines ==
    <<"PowerLossRecovery Status:",
      "Active: " \o BoolStr(is_active),
      "Power Loss Recovery: " \o (IF power_loss_recovery_enabled THEN "Enabled" ELSE "Disabled"),
      "History size: " \o ToString(history_size)
          \o " (current: " \o ToString(Len(state_history)) \o ")",
      "Save delay: " \o ToString(save_delay) \o " states">>

\* The lines it adds to msg for the stored checkpoint ("if val:"); of the
\* checkpoint's fields the file name stands for the others.
SavedStateLines ==
    IF persisted = PyNone \/ DOMAIN persisted.v = {} THEN << >>
    ELSE <<"", "Currently Saved State:",
           "File: " \o (IF "current_file" \in DOMAIN persisted.v
                        THEN persisted.v.current_file.v ELSE "unknown")>>

\* cmd_PLR_QUERY_SAVED_STATE: msg is built and the handler returns; no
\* respond_info call follows.  "%d" % self.last_layer raises a TypeError when
\* the last layer change carried no LAYER parameter.
cmd_PLR_QUERY_SAVED_STATE ==
    /\ Arrive
    /\ Faults(0)
    /\ \E msg \in {StatusLines \o SavedStateLines} :
          response' = [command |-> "PLR_QUERY_SAVED_STATE", lines |-> << >>,
                       raised |-> save_on_layer /\ last_layer = PyNone]
    /\ UNCHANGED <<config, rewriter, calls, now, printing, print_start_time, fields, persisted, timers, last_save>>

-----------------------------------------------------------------------------
(* The gcode directory *)

\* backup_file = f"{base_name}{ext}.plr"
BackupName(name) == name \o ".plr"

\* The files of the gcode directory the module touches.
FileNames == {GcodeFile, BackupName(GcodeFile)}

Absent == [exists |-> FALSE, data |-> ""]

File(data) == [exists |-> TRUE, data |-> data]

EmptyDir == [n \in FileNames |-> Absent]

\* os.rename(src, dst): an existing dst is replaced.
Rename(fs, src, dst) == [fs EXCEPT ![dst] = fs[src], ![src] = Absent]

\* os.remove(name)
Remove(fs, name) == [fs EXCEPT ![name] = Absent]

\* os.path.splitext(filename)[1] == '.plr'
HasPlrExt(filename) ==
    /\ Len(filename) > 4
    /\ SubSeq(filename, Len(filename) - 3, Len(filename)) = ".plr"

\* The index of the first "\n" of s at or after i, 0 if there is none.
RECURSIVE NewlineFrom(_, _)
NewlineFrom(s, i) ==
    IF i > Len(s) THEN 0
    ELSE IF SubSeq(s, i, i) = "\n" THEN i
    ELSE NewlineFrom(s, i + 1)

\* for line in infile: the lines of s, each with its line end.
RECURSIVE Lines(_)
Lines(s) ==
    IF s = "" THEN << >>
    ELSE LET k == NewlineFrom(s, 1)
         IN  IF k = 0 THEN <<s>>
             ELSE <<SubSeq(s, 1, k)>> \o Lines(SubSeq(s, k + 1, Len(s)))

\* The content of a file after the writes ws.
RECURSIVE Concat(_)
Concat(ws) == IF ws = << >> THEN "" ELSE ws[1] \o Concat(Tail(ws))

-----------------------------------------------------------------------------
(* _modify_gcode_file *)

PLACEHOLDER == ";;;;; PLR_RESUME - PRINT GCODE STARTS ;;;;;"

\* f"{value}": a float prints with its fraction, an int without.
FormatNumber(val) ==
    IF val.ty = "float" THEN ToString(val.v) \o ".0" ELSE ToString(val.v)

\* f"{value:.3f}"
FormatFixed3(val) == ToString(val.v) \o ".000"

\* Mutant of CopiedLines: a line whose end is exactly at file_position is
\* skipped too.
RECURSIVE CopiedLinesPast(_, _, _)
CopiedLinesPast(lines, current_position, file_position) ==
    IF lines = << >> THEN << >>
    ELSE LET position == current_position + Len(lines[1])
         IN  IF position <= file_position
             THEN CopiedLinesPast(Tail(lines), position, file_position)
             ELSE <<lines[1]>> \o CopiedLinesPast(Tail(lines), position, file_position)

\* The lines the copy loop writes: a line is skipped while the running count
\* through its end is below file_position.
RECURSIVE CopiedLines(_, _, _)
CopiedLines(lines, current_position, file_position) ==
    IF lines = << >> THEN << >>
    ELSE LET position == current_position + Len(lines[1])
         IN  IF position < file_position
             THEN CopiedLines(Tail(lines), position, file_position)
             ELSE <<lines[1]>> \o CopiedLines(Tail(lines), position, file_position)

\* The lines written before the placeholder; nothing when restart_gcode_lines
\* is empty.  (The saved state passed _verify_state, so the KeyError branches
\* for active_extruder and chamber_temp are not taken.)
RestartPreamble(saved_state) ==
    LET saved_z == saved_state.v.position.v.z
        active_extruder == saved_state.v.active_extruder.v
        chamber_temp == saved_state.v.chamber_temp
    IN  IF restart_gcode_lines # << >>
        THEN <<"ACTIVATE_EXTRUDER EXTRUDER=" \o active_extruder \o "\n">>
             \o (IF chamber_temp.v > 0 /\ chamber_heater_name # ""
                 THEN <<"SET_HEATER_TEMPERATURE HEATER=" \o chamber_heater_name
                        \o " TARGET=" \o FormatNumber(chamber_temp) \o "\n">>
                 ELSE << >>)
             \o <<"G1 Z" \o FormatFixed3(saved_z) \o " F3000 ; Restore Z height\n">>
             \o [i \in 1 .. Len(restart_gcode_lines) |-> restart_gcode_lines[i] \o "\n"]
        ELSE << >>

\* The writes to the new file, in order.
RewriteWrites(saved_state, file_position, backup_data) ==
    RestartPreamble(saved_state)
    \o <<PLACEHOLDER \o "\n">>
    \o CopiedLines(Lines(backup_data), 0, file_position)

\* Where the rewrite raises: never, in os.rename, in one of the two open
\* calls, or in a write after n writes have reached the new file.
Failures ==
    {[at |-> a, n |-> 0] : a \in {"never", "rename", "open"}}
    \cup {[at |-> "write", n |-> n] : n \in 0 .. MaxWritten}

NoFailure == [at |-> "never", n |-> 0]

\* Mutant of Rollback: the partial file is removed, the backup is not renamed.
RollbackWithoutRename(fs, input_file, backup_file) ==
    IF fs[input_file].exists THEN Remove(fs, input_file) ELSE fs

\* The except clause: remove the new file if it exists, rename the backup
\* back if it exists.
Rollback(fs, input_file, backup_file) ==
    LET removed == IF fs[input_file].exists THEN Remove(fs, input_file) ELSE fs
    IN  IF removed[backup_file].exists
        THEN Rename(removed, backup_file, input_file)
        ELSE removed

\* _modify_gcode_file: the directory afterwards, the result, and the number
\* of writes that reached the new file.
ModifyGcodeFile(fs, saved_state, input_file, file_position, failure) ==
    LET backup_file == BackupName(input_file)
        renamed == Rename(fs, input_file, backup_file)
        writes == RewriteWrites(saved_state, file_position, renamed[backup_file].data)
        partial == [renamed EXCEPT ![input_file] = File(Concat(SubSeq(writes, 1, failure.n)))]
    IN  IF failure.at = "rename"
        THEN [files |-> fs, result |-> "rename_error", written |-> 0]
        ELSE IF failure.at = "open"
        THEN [files |-> Rollback(renamed, input_file, backup_file),
              result |-> "rolled_back", written |-> 0]
        ELSE IF failure.at = "write"
        THEN [files |-> Rollback(partial, input_file, backup_file),
              result |-> "rolled_back", written |-> failure.n]
        ELSE [files |-> [renamed EXCEPT ![input_file] = File(Concat(writes))],
              result |-> "rewritten", written |-> Len(writes)]

-----------------------------------------------------------------------------
(* PLR_RESUME_PRINT and the completion notification *)

NoResume == [result |-> "none", before |-> EmptyDir, position |-> 0, written |-> 0]

NoNotification == [seen |-> FALSE, filename |-> ""]

\* _get_saved_state: None when nothing (or the reset's {}) is stored or the
\* stored state fails _verify_state.
GetSavedState(stored) ==
    IF stored = PyNone \/ DOMAIN stored.v = {} THEN PyNone
    ELSE IF ~_verify_state(stored) THEN PyNone
    ELSE stored

\* The message cmd_PLR_RESUME_PRINT answers with (its first line).
ResumeResponse(result) ==
    Respond("PLR_RESUME_PRINT",
            <<CASE result = "no_state" -> "No valid saved state found"
                [] result = "no_filename" -> "No filename found in saved state"
                [] result = "file_not_found" -> "Original gcode file not found"
                [] result \in {"rename_error", "rolled_back"}
                        -> "Error creating modified gcode file"
                [] OTHER -> "Created and started power loss recovery file">>)

\* cmd_PLR_RESUME_PRINT; failure: where _modify_gcode_file raises.
cmd_PLR_RESUME_PRINT(failure) ==
    /\ Arrive
    /\ resuming_print' = TRUE
    /\ notified' = NoNotification
    /\ \E state_data \in {GetSavedState(persisted)} :
       LET ended(result) ==
               /\ failure = NoFailure
               /\ Faults(0)
               /\ files' = files
               /\ last_resume' = [NoResume EXCEPT !.result = result, !.before = files]
               /\ response' = ResumeResponse(result)
       IN  IF state_data = PyNone
           THEN ended("no_state")
           ELSE IF "current_file" \notin DOMAIN state_data.v
                   \/ state_data.v.current_file.v = ""
           THEN ended("no_filename")
           ELSE IF ~files[state_data.v.current_file.v].exists
           THEN ended("file_not_found")
           ELSE /\ failure.at = "write"
                       => failure.n < Len(RewriteWrites(state_data,
                                              state_data.v.file_progress.v.position.v,
                                              files[state_data.v.current_file.v].data))
                /\ \E modified \in {ModifyGcodeFile(files, state_data,
                                        state_data.v.current_file.v,
                                        state_data.v.file_progress.v.position.v,
                                        failure)} :
                   /\ Faults(IF failure = NoFailure THEN 0 ELSE 1)
                   /\ files' = modified.files
                   /\ last_resume' = [result |-> modified.result, before |-> files,
                                      position |-> state_data.v.file_progress.v.position.v,
                                      written |-> modified.written]
                   /\ response' = ResumeResponse(modified.result)
    /\ UNCHANGED <<config, calls, now, printing, print_start_time, state_history, is_active,
                   last_save_time, last_layer, current_z_height,
                   _last_extruder_change_time, _consecutive_failures,
                   _last_save_attempt, power_loss_recovery_enabled, persisted,
                   timers, last_save, restart_gcode_lines, chamber_heater_name>>

ResumePrint == \E failure \in Failures : cmd_PLR_RESUME_PRINT(failure)

\* Mutant of RestoreOriginalGcode: the two files change places.
RestoreSwaps(fs, filename) ==
    IF HasPlrExt(filename) \/ ~fs[BackupName(filename)].exists THEN fs
    ELSE [fs EXCEPT ![filename] = fs[BackupName(filename)],
                    ![BackupName(filename)] = fs[filename]]

\* Mutant of RestoreOriginalGcode: the backup is deleted, not renamed back.
RestoreDeletesBackup(fs, filename) ==
    IF HasPlrExt(filename) THEN fs ELSE Remove(fs, BackupName(filename))

\* _restore_original_gcode
RestoreOriginalGcode(fs, filename) ==
    IF HasPlrExt(filename) THEN fs
    ELSE LET original_file == filename
             backup_file == BackupName(original_file)
         IN  IF fs[backup_file].exists
             THEN Rename(IF fs[original_file].exists THEN Remove(fs, original_file) ELSE fs,
                         backup_file, original_file)
             ELSE fs

\* _handle_print_complete (print_stats:complete and print_stats:error);
\* filename: print_stats' filename.
_handle_print_complete(filename) ==
    /\ Arrive
    /\ response' = NoResponse
    /\ files' = IF filename # "" THEN RestoreOriginalGcode(files, filename) ELSE files
    /\ notified' = [seen |-> TRUE, filename |-> filename]
    /\ UNCHANGED <<config, calls, now, printing, print_start_time, fields, persisted, timers,
                   last_save, faults, restart_gcode_lines,
                   chamber_heater_name, last_resume>>

PrintComplete == \E filename \in FileNames \cup {""} : _handle_print_complete(filename)

-----------------------------------------------------------------------------
(* _calculate_optimal_delay on its own *)

NoCall == [called |-> FALSE, lag |-> [ok |-> FALSE, v |-> 0], delay |-> 0]

\* One call; lag: what the toolhead and mcu lookups yield.
_calculate_optimal_delay(lag) ==
    /\ delay_call' = [called |-> TRUE, lag |-> lag,
                      delay |-> CalculateOptimalDelay(lag, save_interval,
                                                      history_size, save_delay)]
    /\ UNCHANGED <<config, rewriter, now, printing, print_start_time, fields, persisted, timers,
                   last_save, events, faults, interval_call, verify_call, collect_call, response,
                   running>>

-----------------------------------------------------------------------------
(* _optimize_background_interval on its own *)

NoIntervalCall ==
    [called |-> FALSE, ok |-> TRUE, since |-> 0, hist |-> << >>, result |-> 0]

\* _optimize_background_interval with its except clause: when the computation
\* raises (ok = FALSE) the handler returns self.save_interval.
OptimizeBackgroundIntervalOrBase(ok, base, current_time, last_extruder_change, hist) ==
    IF ok
    THEN OptimizeBackgroundInterval(base, current_time, last_extruder_change, hist)
    ELSE base * IntervalScale

\* One call, since seconds after the last extruder change, with history hist.
_optimize_background_interval(ok, since, hist) ==
    /\ interval_call' =
           [called |-> TRUE, ok |-> ok, since |-> since, hist |-> hist,
            result |-> OptimizeBackgroundIntervalOrBase(ok, save_interval, since, 0, hist)]
    /\ UNCHANGED <<config, rewriter, now, printing, print_start_time, fields, persisted, timers,
                   last_save, events, faults, delay_call, verify_call, collect_call, response,
                   running>>

-----------------------------------------------------------------------------
(* _verify_state on its own *)

NoVerifyCall == [called |-> FALSE, state |-> PyNone, result |-> VerifyResult(PyNone)]

\* One call of self._verify_state(state); the method assigns nothing.
VerifyState(state) ==
    /\ verify_call' = [called |-> TRUE, state |-> state, result |-> VerifyResult(state)]
    /\ UNCHANGED <<config, rewriter, now, printing, print_start_time, fields, persisted, timers,
                   last_save, events, faults, delay_call, interval_call, collect_call, response,
                   running>>

-----------------------------------------------------------------------------
(* _collect_current_state on its own *)

NoCollectCall == [called |-> FALSE, rd |-> [ok |-> FALSE], state |-> PyNone]

\* One call of self._collect_current_state(); the method assigns nothing.
_collect_current_state(rd) ==
    /\ collect_call' = [called |-> TRUE, rd |-> rd,
                        state |-> CollectCurrentState(now, rd, last_layer, current_z_height)]
    /\ UNCHANGED <<config, rewriter, now, printing, print_start_time, fields, persisted, timers,
                   last_save, events, faults, delay_call, interval_call, verify_call, response,
                   running>>

-----------------------------------------------------------------------------
(* Environment *)

\* The reactor runs a due timer before the clock reaches the next second.
TimerDue == \E i \in 1 .. Len(timers) : timers[i] <= now * IntervalScale

\* One second passes, up to the time limit.
AdvanceTo(limit) ==
    /\ ~TimerDue
    /\ now < limit
    /\ now' = now + 1
    /\ UNCHANGED <<config, rewriter, calls, response, printing, print_start_time, fields, persisted, timers, last_save, events, faults>>

Advance == AdvanceTo(MaxTime)

\* print_stats enters or leaves the 'printing' state.
JobStateChange ==
    /\ Arrive
    /\ response' = NoResponse
    /\ Faults(0)
    /\ printing' = ~printing
    /\ print_start_time' = IF ~printing /\ state_history # << >> THEN now ELSE 0
    /\ UNCHANGED <<config, rewriter, calls, now, fields, persisted, timers, last_save>>

-----------------------------------------------------------------------------
(* The scheduler *)

\* The object after __init__, _handle_connect and _handle_ready (which
\* registers the first timer with reactor.NOW).
InitObject ==
    /\ now = 0
    /\ printing = FALSE
    /\ print_start_time = 0
    /\ state_history = << >>
    /\ is_active = FALSE
    /\ last_save_time = 0
    /\ last_layer = PyInt(0)
    /\ current_z_height = 0
    /\ _last_extruder_change_time = 0
    /\ _consecutive_failures = 0
    /\ _last_save_attempt = 0
    /\ power_loss_recovery_enabled = FALSE
    /\ resuming_print = FALSE
    /\ timers = <<0>>
    /\ last_save = NoAttempt
    /\ events = 0
    /\ faults = 0
    /\ last_resume = NoResume
    /\ notified = NoNotification
    /\ delay_call = NoCall
    /\ interval_call = NoIntervalCall
    /\ verify_call = NoVerifyCall
    /\ collect_call = NoCollectCall
    /\ response = NoResponse
    /\ running = << >>

Init ==
    /\ event_budget = MaxEvents
    /\ \E c \in Configs :
          history_size = c[1] /\ save_interval = c[2] /\ save_delay = c[3]
    /\ InitObject
    /\ persisted = PyNone
    /\ files = EmptyDir
    /\ restart_gcode_lines = << >>
    /\ chamber_heater_name = ""

Next ==
    \/ Tick
    \/ LayerChange
    \/ ActivateExtruder
    \/ ForceSave
    \/ Reset
    \/ cmd_PLR_ENABLE
    \/ cmd_PLR_DISABLE
    \/ cmd_PLR_QUERY_SAVED_STATE
    \/ Advance
    \/ JobStateChange

Spec == Init /\ [][Next]_vars

\* The scheduler with one more outside event per behaviour, for the
\* scenarios that need four (enable, job start, disable, one more command).
LongConfigs == {<<2, 6, 0>>, <<3, 6, 2>>}

InitLong ==
    /\ event_budget = MaxEvents + 1
    /\ \E c \in LongConfigs :
          history_size = c[1] /\ save_interval = c[2] /\ save_delay = c[3]
    /\ InitObject
    /\ persisted = PyNone
    /\ files = EmptyDir
    /\ restart_gcode_lines = << >>
    /\ chamber_heater_name = ""

SpecLong == InitLong /\ [][Next]_vars

\* The reactor runs every due timer and its clock advances.
FairConfigs == {<<2, 0, 1>>, <<3, 6, 2>>}

InitFair ==
    /\ event_budget = MaxEvents
    /\ \E c \in FairConfigs :
          history_size = c[1] /\ save_interval = c[2] /\ save_delay = c[3]
    /\ InitObject
    /\ persisted = PyNone
    /\ files = EmptyDir
    /\ restart_gcode_lines = << >>
    /\ chamber_heater_name = ""

SpecFair == InitFair /\ [][Next]_vars /\ WF_vars(Tick) /\ WF_vars(Advance)

-----------------------------------------------------------------------------
(* The resume: PLR_RESUME_PRINT and completion notifications after a restart *)

\* The contents of the printed file explored.
Contents == {"", "ab\ncd\n", "ab\ncd"}

\* restart_gcode, parsed into lines (unset: no lines).
RestartConfigs == {<< >>, <<"M117 Resuming">>, <<"G28 X Y", "M83">>}

\* chamber_heater = config.get('chamber_heater', '')
ChamberHeaters == {"", "chamber"}

\* The checkpoints a previous run may have left in the store: none, or a
\* snapshot collected at file position o with chamber temperature t.
Checkpoints ==
    {PyNone}
    \cup {WithMcuStatus(
              CollectCurrentState(0, [Reading(0, "extruder") EXCEPT
                                         !.file_position = o, !.chamber_temp = t],
                                  PyInt(0), 0),
              GetMoveBufferStatus(0)) : o \in 0 .. MaxOffset, t \in {0, 30}}

InitResume ==
    /\ event_budget = MaxEvents
    /\ history_size = 2 /\ save_interval = 6 /\ save_delay = 0
    /\ InitObject
    /\ persisted \in Checkpoints
    /\ files \in {[EmptyDir EXCEPT ![GcodeFile] = f] :
                     f \in {Absent} \cup {File(data) : data \in Contents}}
    /\ restart_gcode_lines \in RestartConfigs
    /\ chamber_heater_name \in ChamberHeaters

NextResume ==
    \/ ResumePrint
    \/ PrintComplete

SpecResume == InitResume /\ [][NextResume]_vars

-----------------------------------------------------------------------------
(* The delay selector on its own *)

\* save_interval values explored (0: time-based saving off).
Intervals == {0, 1, 3, 6}

DelayLags ==
    {[ok |-> FALSE, v |-> 0]} \cup {[ok |-> TRUE, v |-> l] : l \in -MaxLag .. MaxLag}

InitDelay ==
    /\ event_budget = MaxEvents
    /\ history_size \in 2 .. MaxHistory
    /\ save_interval \in Intervals
    /\ save_delay \in 0 .. history_size - 1
    /\ InitObject
    /\ persisted = PyNone
    /\ files = EmptyDir
    /\ restart_gcode_lines = << >>
    /\ chamber_heater_name = ""

NextDelay == \E lag \in DelayLags : _calculate_optimal_delay(lag)

SpecDelay == InitDelay /\ [][NextDelay]_vars

-----------------------------------------------------------------------------
(* The adaptive interval on its own *)

\* save_interval values explored, in seconds (config range 0 .. 300).
BaseIntervals == {0, 1, 4, 6, 30, 300}

\* Histories explored: empty, one snapshot, or two snapshots that differ by
\* dx mm in x and dt degrees at the hotend.
IntervalHistories ==
    LET snap(x, t) == CollectCurrentState(0, [Reading(x, "extruder") EXCEPT !.hotend_temp = t],
                                          PyInt(0), 0)
    IN  {<< >>, <<snap(0, 200)>>}
        \cup {<<snap(0, 200), snap(dx, 200 + dt)>> : dx \in {0, 15}, dt \in {0, 10}}

InitInterval ==
    /\ event_budget = MaxEvents
    /\ history_size = 2 /\ save_delay = 0
    /\ save_interval \in BaseIntervals
    /\ InitObject
    /\ persisted = PyNone
    /\ files = EmptyDir
    /\ restart_gcode_lines = << >>
    /\ chamber_heater_name = ""

NextInterval ==
    \E ok \in BOOLEAN, since \in 0 .. MaxSince, hist \in IntervalHistories :
        _optimize_background_interval(ok, since, hist)

SpecInterval == InitInterval /\ [][NextInterval]_vars

-----------------------------------------------------------------------------
(* The scheduler over a longer time: a failed save and the ticks after it *)

\* Long enough for the tick that follows an attempt made by MaxTime: the
\* tick returns at most save_interval later.
RetryTime == 2 * MaxTime

AdvanceLong == AdvanceTo(RetryTime)

\* The object after PLR_ENABLE and the job's start, before the first tick
\* of the job.
JobStarted ==
    /\ history_size = 2 /\ save_interval = 6 /\ save_delay = 0
    /\ now = 0
    /\ printing = TRUE
    /\ print_start_time = 0
    /\ state_history = << >>
    /\ is_active = FALSE
    /\ last_save_time = 0
    /\ last_layer = PyInt(0)
    /\ current_z_height = 0
    /\ _last_extruder_change_time = 0
    /\ _consecutive_failures = 0
    /\ _last_save_attempt = 0
    /\ power_loss_recovery_enabled = TRUE
    /\ resuming_print = FALSE
    /\ timers = <<0>>
    /\ last_save = NoAttempt
    /\ events = 0
    /\ faults = 0
    /\ last_resume = NoResume
    /\ notified = NoNotification
    /\ delay_call = NoCall
    /\ interval_call = NoIntervalCall
    /\ verify_call = NoVerifyCall
    /\ collect_call = NoCollectCall
    /\ response = NoResponse
    /\ running = << >>
    /\ persisted = PyNone
    /\ files = EmptyDir
    /\ restart_gcode_lines = << >>
    /\ chamber_heater_name = ""

\* One layer change or extruder activation may follow.
InitRetry ==
    /\ event_budget = 1
    /\ JobStarted

NextRetry ==
    \/ Tick
    \/ LayerChange
    \/ ActivateExtruder
    \/ AdvanceLong

\* The reactor runs every due timer and its clock advances.
SpecRetry == InitRetry /\ [][NextRetry]_vars /\ WF_vars(Tick) /\ WF_vars(AdvanceLong)

-----------------------------------------------------------------------------
(* The scheduler over a job that stops and starts again *)

InitRestart ==
    /\ event_budget = MaxEvents
    /\ JobStarted

NextRestart ==
    \/ Tick
    \/ cmd_PLR_ENABLE
    \/ cmd_PLR_DISABLE
    \/ JobStateChange
    \/ Advance

SpecRestart == InitRestart /\ [][NextRestart]_vars

-----------------------------------------------------------------------------
(* The callbacks step by step: the tick and the two event handlers *)

\* Mutant of HandlerSteps: the timer is registered before the save.
RegisterFirstSteps == <<"register", "save", "write">>

\* The steps of an event handler after its guard, in the order of its
\* statements: _save_current_state up to the store command, the store
\* command (SAVE_VARIABLE), register_timer.
HandlerSteps == <<"save", "write", "register">>

\* The steps of _background_task: collection and validation, the store
\* command of its save, the return of the next wake time.
TaskSteps == <<"save", "write", "return">>

StepsOf(callback) == IF callback = "_background_task" THEN TaskSteps ELSE HandlerSteps

Handlers == {"_handle_layer_change", "_handle_activate_extruder"}

\* The reactor runs callbacks one at a time: the callbacks contain no
\* reactor.pause and start no thread, so each returns before the next starts.
Idle == running = << >>

\* The reactor enters _background_task for due timer i.
EnterTask(i) ==
    /\ Idle
    /\ Due(i)
    /\ running' = <<[callback |-> "_background_task", timer |-> i, at |-> 1]>>
    /\ UNCHANGED <<config, rewriter, delay_call, interval_call, verify_call, collect_call, response, now,
                   printing, print_start_time, fields, persisted, timers, last_save, events, faults>>

\* An event arrives and the reactor enters its handler.
EnterHandler(callback) ==
    /\ Idle
    /\ is_active
    /\ callback = "_handle_layer_change" => save_on_layer
    /\ TimerRoom
    /\ Arrive
    /\ response' = NoResponse
    /\ running' = <<[callback |-> callback, timer |-> 0, at |-> 1]>>
    /\ UNCHANGED <<config, rewriter, delay_call, interval_call, verify_call, collect_call, now,
                   printing, print_start_time, fields, persisted, timers, last_save, faults>>

\* The callback at the top performs its next step and moves on, or returns
\* after its last one.
Proceed(r) == IF r.at < Len(StepsOf(r.callback)) THEN <<[r EXCEPT !.at = r.at + 1]>> ELSE << >>

\* The running callback performs the step it is at.
Step ==
    /\ ~Idle
    /\ \E r \in {running[Len(running)]} :
       \E step \in {StepsOf(r.callback)[r.at]} :
          /\ running' = SubSeq(running, 1, Len(running) - 1) \o Proceed(r)
          /\ IF step = "write"
             THEN \E store_ok \in BOOLEAN :
                    /\ IF store_ok THEN Faults(0) ELSE Faults(1)
                    /\ persisted' = IF store_ok
                                     THEN WithMcuStatus(
                                              CollectCurrentState(now, Reading(0, "extruder"),
                                                                  last_layer, current_z_height),
                                              GetMoveBufferStatus(0))
                                     ELSE persisted
                    /\ last_save_time' = IF store_ok THEN now ELSE last_save_time
             ELSE UNCHANGED <<persisted, last_save_time, faults>>
          /\ timers' = CASE step = "register" -> RegisterTimer
                          [] step = "return" -> [timers EXCEPT ![r.timer] =
                                                    (now + Max(1, save_interval)) * IntervalScale]
                          [] OTHER -> timers
    /\ UNCHANGED <<config, rewriter, delay_call, interval_call, verify_call, collect_call, response, now,
                   printing, print_start_time, state_history, is_active, last_layer, current_z_height,
                   _last_extruder_change_time, _consecutive_failures, _last_save_attempt,
                   power_loss_recovery_enabled, resuming_print, last_save, events>>

\* A print in progress: the state after PLR_ENABLE, the job's start and the
\* first tick.
InitReactor ==
    /\ event_budget = MaxEvents
    /\ \E c \in FairConfigs :
          history_size = c[1] /\ save_interval = c[2] /\ save_delay = c[3]
    /\ now = 0
    /\ printing = TRUE
    /\ print_start_time = 0
    /\ state_history = << >>
    /\ is_active = TRUE
    /\ last_save_time = 0
    /\ last_layer = PyInt(0)
    /\ current_z_height = 0
    /\ _last_extruder_change_time = 0
    /\ _consecutive_failures = 0
    /\ _last_save_attempt = 0
    /\ power_loss_recovery_enabled = TRUE
    /\ resuming_print = FALSE
    /\ timers = <<IntervalScale>>
    /\ last_save = NoAttempt
    /\ events = 0
    /\ faults = 0
    /\ last_resume = NoResume
    /\ notified = NoNotification
    /\ delay_call = NoCall
    /\ interval_call = NoIntervalCall
    /\ verify_call = NoVerifyCall
    /\ collect_call = NoCollectCall
    /\ response = NoResponse
    /\ running = << >>
    /\ persisted = PyNone
    /\ files = EmptyDir
    /\ restart_gcode_lines = << >>
    /\ chamber_heater_name = ""

NextReactor ==
    \/ \E i \in 1 .. MaxTimers : EnterTask(i)
    \/ \E callback \in Handlers : EnterHandler(callback)
    \/ Step
    \/ Advance

SpecReactor == InitReactor /\ [][NextReactor]_vars

-----------------------------------------------------------------------------
(* The validator on its own: _verify_state on arbitrary values *)

\* A snapshot as _collect_current_state builds it.
WellFormed == CollectCurrentState(0, Reading(0, "extruder"), PyInt(0), 0)

\* state with key field set to val, and with key field deleted.
WithField(state, field, val) ==
    PyDict([k \in DOMAIN state.v \cup {field} |-> IF k = field THEN val ELSE state.v[k]])

WithoutField(state, field) ==
    PyDict([k \in DOMAIN state.v \ {field} |-> state.v[k]])

\* One change to a snapshot: a key deleted or set, at the top level
\* (sub = "") or inside the dict at key field.
Change(state, c) ==
    IF c.sub = ""
    THEN IF c.delete THEN WithoutField(state, c.field) ELSE WithField(state, c.field, c.val)
    ELSE IF c.field \notin DOMAIN state.v \/ state.v[c.field].ty # "dict"
    THEN state
    ELSE WithField(state, c.field,
                   IF c.delete THEN WithoutField(state.v[c.field], c.sub)
                   ELSE WithField(state.v[c.field], c.sub, c.val))

Delete(field, sub) == [field |-> field, sub |-> sub, delete |-> TRUE, val |-> PyNone]

Set(field, sub, val) == [field |-> field, sub |-> sub, delete |-> FALSE, val |-> val]

\* Values at and beside the limits of the range checks, and of other types.
Changes ==
    {Delete("position", ""), Delete("layer", ""), Delete("file_progress", ""),
     Delete("save_time", ""), Delete("chamber_temp", ""), Delete("active_extruder", ""),
     Delete("position", "z"), Delete("file_progress", "total_size"),
     Set("position", "", PyNone), Set("position", "x", PyStr("0")),
     Set("layer", "", PyFloat(1)), Set("layer", "", PyBool(TRUE)),
     Set("layer", "", PyInt(-1)), Set("layer_height", "", PyNone),
     Set("file_progress", "", PyInt(0)),
     Set("file_progress", "position", PyFloat(1)),
     Set("file_progress", "total_size", PyInt(-1)),
     Set("file_progress", "total_size", PyInt(0)),
     Set("file_progress", "progress_pct", PyFloat(-1)),
     Set("file_progress", "progress_pct", PyFloat(10000)),
     Set("file_progress", "progress_pct", PyFloat(10001)),
     Set("file_progress", "progress_pct", PyStr("50")),
     Set("hotend_temp", "", PyFloat(500)), Set("hotend_temp", "", PyFloat(501)),
     Set("hotend_temp", "", PyFloat(-273)), Set("hotend_temp", "", PyFloat(-274)),
     Set("hotend_temp", "", PyInt(FloatMax + 1)), Set("hotend_temp", "", PyStr("hot")),
     Set("bed_temp", "", PyFloat(200)), Set("bed_temp", "", PyFloat(201)),
     Set("bed_temp", "", PyInt(-(FloatMax + 1))),
     Set("chamber_temp", "", PyFloat(100)), Set("chamber_temp", "", PyFloat(101)),
     Set("active_extruder", "", PyStr("extruder1")), Set("active_extruder", "", PyInt(0))}

\* The values validated: values that are no dict, the snapshot, and the
\* snapshot after one change or two.
VerifyInputs ==
    {PyNone, PyStr("{}"), PyInt(0)}
    \cup {WellFormed}
    \cup {Change(WellFormed, c) : c \in Changes}
    \cup {Change(Change(WellFormed, c), d) : c \in Changes, d \in Changes}

InitVerify ==
    /\ event_budget = MaxEvents
    /\ history_size = 2 /\ save_interval = 6 /\ save_delay = 0
    /\ InitObject
    /\ persisted = PyNone
    /\ files = EmptyDir
    /\ restart_gcode_lines = << >>
    /\ chamber_heater_name = ""

NextVerify == \E state \in VerifyInputs : VerifyState(state)

SpecVerify == InitVerify /\ [][NextVerify]_vars

-----------------------------------------------------------------------------
(* The collector on its own *)

\* The providers _collect_current_state queries inside its try block.
CollectProviders ==
    {"print_stats", "virtual_sdcard", "extruder", "toolhead", "heater_bed",
     "heater_chamber", "gcode_move"}

\* part_cooling_fans of this configuration.
FanNames == {"fan", "fan_generic aux"}

\* What one fan's lookup and get_status yield: they raise, or a speed in
\* thousandths.
FanReadings == {[ok |-> FALSE, speed |-> 0]} \cup {[ok |-> TRUE, speed |-> v] : v \in {0, 500}}

\* file_position and file_size of virtual_sdcard's status.
FilePositions == {0, 40, 100, 150}

FileSizes == {0, 100}

\* The providers' answers: all succeed, or the provider failed raises.
CollectReadings ==
    {[Reading(0, "extruder") EXCEPT !.file_position = p, !.file_size = sz, !.fans = f] :
        p \in FilePositions, sz \in FileSizes, f \in [FanNames -> FanReadings]}
    \cup {[ok |-> FALSE, failed |-> pr, fans |-> f] :
             pr \in CollectProviders, f \in [FanNames -> FanReadings]}

InitCollect ==
    /\ event_budget = MaxEvents
    /\ history_size = 2 /\ save_interval = 6 /\ save_delay = 0
    /\ InitObject
    /\ persisted = PyNone
    /\ files = EmptyDir
    /\ restart_gcode_lines = << >>
    /\ chamber_heater_name = ""

NextCollect == \E rd \in CollectReadings : _collect_current_state(rd)

SpecCollect == InitCollect /\ [][NextCollect]_vars

-----------------------------------------------------------------------------
(* Properties of the scheduler *)

\* The entry d back from the newest (0 = newest) of a history.
FromNewest(hist, d) == hist[Len(hist) - d]

\* All but the last element.
Front(seq) == SubSeq(seq, 1, Len(seq) - 1)

\* A checkpoint is stored (the store holds neither nothing nor the reset's {}).
HasCheckpoint == persisted.ty = "dict" /\ DOMAIN persisted.v # {}

\* The most recent handler persisted a checkpoint.
JustSaved == last_save.outcome = "saved"

\* C1 (as claimed): whenever a checkpoint is persisted, the persisted
\* snapshot was collected no later than (time of the save - lag), lag being
\* print_time - est_print_time read by that save.
C1_PersistedBehindExecution ==
    JustSaved /\ last_save.lag.ok
        => persisted.v.collection_time.v <= last_save_time - last_save.lag.v

\* C2 (as claimed): on every successful save the persisted checkpoint is the
\* history entry d back from the newest, d being the delay the delay selector
\* returned for that save.
C2_PersistedIsSelectedEntry ==
    JustSaved => persisted = FromNewest(state_history, last_save.delay)

\* What a tick itself may do to the history: clear it (job start), append
\* the snapshot it collected now, evicting the oldest of a full buffer.
TickOwnHistoryStep(old, new) ==
    \/ new = old
    \/ new = << >>
    \/ /\ Len(new) >= 1
       /\ new[Len(new)].v.collection_time.v = now
       /\ "mcu_status" \notin DOMAIN new[Len(new)].v
       /\ Front(new) \in {old, IF old = << >> THEN << >> ELSE Tail(old), << >>}

\* A step of a timer: a wake time is replaced, none is added.
IsTickStep == Len(timers') = Len(timers) /\ timers' # timers

\* C3: a save attempt made when the history holds no more entries than the
\* selected delay persists nothing: the stored checkpoint and last_save_time
\* keep their values and the attempt leaves the history as it was (in a tick,
\* as the tick's own collection step left it).
C3_InsufficientHistoryKeepsState ==
    [][(last_save'.outcome \notin {"none", "skipped"}
          /\ Len(state_history') <= last_save'.delay)
        => /\ persisted' = persisted
           /\ last_save_time' = last_save_time
           /\ IF IsTickStep
              THEN TickOwnHistoryStep(state_history, state_history')
              ELSE state_history' = state_history]_vars

\* C3 witness: an attempt met a non-empty but insufficient history while a
\* checkpoint was stored.
C3_Witness ==
    /\ last_save.outcome = "insufficient"
    /\ Len(state_history) >= 1
    /\ Len(state_history) <= last_save.delay
    /\ HasCheckpoint

\* C4: every entry of the history passes the validator, and so does every
\* stored checkpoint: an invalid snapshot is neither appended nor persisted.
C4_OnlyValidSnapshots ==
    /\ \A i \in 1 .. Len(state_history) : _verify_state(state_history[i])
    /\ HasCheckpoint => _verify_state(persisted)

\* C4 witness: an invalid snapshot has just been collected (the failure
\* counter is positive) while the history and the store are filled.
C4_Witness ==
    /\ _consecutive_failures > 0
    /\ Len(state_history) >= 1
    /\ HasCheckpoint

\* The entries of a history as they were collected.
Collected(hist) == [i \in 1 .. Len(hist) |-> AsCollected(hist[i])]

\* A step of the history as a bounded FIFO: unchanged, cleared, or one valid
\* snapshot collected now is appended, after a clear or with the oldest
\* entry evicted exactly when the buffer was full.
FifoStep(old, new) ==
    \/ new = old
    \/ new = << >>
    \/ /\ Len(new) >= 1
       /\ _verify_state(new[Len(new)])
       /\ new[Len(new)].v.collection_time.v = now
       /\ \/ Front(new) = << >>
          \/ Len(old) < history_size /\ Front(new) = old
          \/ Len(old) = history_size /\ Front(new) = Tail(old)

\* C9: the history never holds more than history_size snapshots, they are in
\* collection order, and every step leaves it unchanged, clears it, or
\* appends one valid snapshot, evicting only the oldest entry of a full buffer.
C9_HistoryIsBoundedFifo ==
    /\ [](/\ Len(state_history) <= history_size
          /\ \A i \in 1 .. Len(state_history) - 1 :
                state_history[i].v.collection_time.v
                    <= state_history[i + 1].v.collection_time.v)
    /\ [][FifoStep(Collected(state_history), Collected(state_history'))]_vars

\* C9 witness: the buffer is full and the stored checkpoint is a snapshot
\* that has since been evicted.
C9_Witness ==
    /\ Len(state_history) = history_size
    /\ HasCheckpoint
    /\ persisted.v.collection_time.v < state_history[1].v.collection_time.v

\* A save attempt was made by the step: _save_current_state ran past its
\* first checks.
AttemptMade == last_save'.outcome \notin {"none", "skipped"}

\* The failure count the step's save attempt saw: the tick's local counter
\* after its collection, the stored counter for the other handlers.
FailuresSeen == IF IsTickStep THEN _consecutive_failures' ELSE _consecutive_failures

\* C12 (as claimed): once a save attempt has been made, a step that sees
\* f > 0 consecutive invalid snapshots makes no save attempt (tick, layer
\* change, extruder activation or forced save) before min(30, 2^f) seconds
\* have passed since the last attempt.
C12_NoAttemptDuringBackoff ==
    [][(AttemptMade /\ _last_save_attempt > 0 /\ FailuresSeen > 0)
          => now - _last_save_attempt >= Backoff(FailuresSeen)]_vars

\* Every wake time a tick sets is later than the current time.
TickReschedulesLater ==
    IsTickStep
        => \A i \in 1 .. Len(timers) :
               timers'[i] # timers[i] => timers'[i] > now * IntervalScale

\* C13: every run of the tick, one that fails internally included, returns a
\* wake time strictly later than the current time and no timer is ever
\* dropped; hence the ticks never hold the reactor: the clock reaches the
\* horizon with every timer scheduled beyond it (unless the failure counter
\* reaches MaxFailures first, where the model stops).
C13_TickAlwaysReschedules ==
    /\ [][TickReschedulesLater /\ Len(timers') >= Len(timers)]_vars
    /\ [](Len(timers) >= 1)
    /\ <>[](\/ now = MaxTime /\ ~TimerDue
            \/ _consecutive_failures >= MaxFailures)

\* C13 witness: a tick's own save attempt failed at the store write, and the
\* tick has been rescheduled.
C13_Witness ==
    /\ last_save.outcome = "store_error"
    /\ now > 0
    /\ _last_save_attempt = now
    /\ ~TimerDue

CommandStep(command) == events' = events + 1 /\ response'.command = command

\* C15: after a force-reset (PLR_RESET_PRINT_DATA whose store write is
\* accepted) the stored checkpoint is empty, so that a resume finds no valid
\* checkpoint, and the consecutive-failure counter, the last-save-attempt time,
\* the last-save time and the tracked layer have their initial values.
C15_ResetRestoresInitialValues ==
    [][(CommandStep("PLR_RESET_PRINT_DATA") /\ faults' = faults)
          => /\ persisted' = PyDict(<< >>)
             /\ GetSavedState(persisted') = PyNone
             /\ _consecutive_failures' = 0
             /\ _last_save_attempt' = 0
             /\ last_save_time' = 0
             /\ last_layer' = PyInt(0)]_vars

\* C16: a status query (PLR_QUERY_SAVED_STATE) delivers to the operator a
\* report with the active flag, the enabled flag, the fill level of the history
\* and, when a checkpoint is stored, its summary.
C16_QueryDeliversReport ==
    [][CommandStep("PLR_QUERY_SAVED_STATE")
          => /\ ~response'.raised
             /\ \A i \in 1 .. Len(StatusLines \o SavedStateLines) :
                    \E j \in 1 .. Len(response'.lines) :
                        response'.lines[j] = (StatusLines \o SavedStateLines)[i]]_vars

-----------------------------------------------------------------------------
(* Properties of the resume *)

\* The most recent resume rewrote the file / failed after the rename.
Rewritten == last_resume.result = "rewritten"

RolledBack == last_resume.result = "rolled_back"

\* The part of a file after its first placeholder line.
AfterPlaceholder(data) ==
    LET lines == Lines(data)
        at == {i \in 1 .. Len(lines) : lines[i] = PLACEHOLDER \o "\n"}
        first == CHOOSE i \in at : \A j \in at : i <= j
    IN  IF at = {} THEN "" ELSE Concat(SubSeq(lines, first + 1, Len(lines)))

\* The content of s from the first line boundary at or after offset o.
FromLineBoundary(s, o) ==
    LET boundaries == {0, Len(s)} \cup {i \in 1 .. Len(s) : SubSeq(s, i, i) = "\n"}
        reached == {b \in boundaries : b >= o}
        first == CHOOSE b \in reached : \A c \in reached : b <= c
    IN  IF reached = {} THEN "" ELSE SubSeq(s, first + 1, Len(s))

\* s begins with prefix.
StartsWith(s, prefix) ==
    Len(s) >= Len(prefix) /\ SubSeq(s, 1, Len(prefix)) = prefix

C6_BodyFromLineBoundary ==
    Rewritten /\ ~notified.seen
        => AfterPlaceholder(files[GcodeFile].data)
               = FromLineBoundary(files[BackupName(GcodeFile)].data, last_resume.position)

\* C7: once the file has been rewritten and a completion notification for it
\* has been handled, the file's name holds the content it had before the
\* resume and no backup file exists.
C7_RewriteThenCompleteRoundTrip ==
    Rewritten /\ notified = [seen |-> TRUE, filename |-> GcodeFile]
        => /\ files[GcodeFile] = last_resume.before[GcodeFile]
           /\ ~files[BackupName(GcodeFile)].exists

\* C7 witness: the round trip of a rewrite that cut the file and wrote a
\* preamble.
C7_Witness ==
    /\ Rewritten
    /\ notified = [seen |-> TRUE, filename |-> GcodeFile]
    /\ last_resume.position > 3
    /\ restart_gcode_lines # << >>
    /\ files[GcodeFile].exists
    /\ files[GcodeFile].data # ""

\* The step handles a completion or error notification.
CompleteStep == events' = events + 1 /\ notified'.seen

\* C21: a completion or error notification whose file name carries the
\* backup suffix changes no file, and handling the same notification a second
\* time changes nothing: the restore applied to its own result, and the
\* notification that follows one for the same name, leave the files as they are.
C21_RestoreIsIdempotent ==
    [][CompleteStep
          => /\ HasPlrExt(notified'.filename) => files' = files
             /\ notified'.filename \in FileNames
                    => RestoreOriginalGcode(files', notified'.filename) = files'
             /\ notified = notified' => files' = files]_vars

\* C21 witness: after a rewrite and the notification for the file, which
\* restored it, the notification has been handled a second time.
C21_Witness ==
    /\ Rewritten
    /\ notified = [seen |-> TRUE, filename |-> GcodeFile]
    /\ events = 3
    /\ files[GcodeFile] = last_resume.before[GcodeFile]
    /\ files[GcodeFile].data # ""
    /\ ~files[BackupName(GcodeFile)].exists

\* The head of the rewritten file as claimed: tool activation, the chamber
\* temperature iff a chamber heater is configured and the saved temperature is
\* positive, the move to the saved Z, the on-restart lines, the placeholder.
ClaimedHead ==
    Concat(<<"ACTIVATE_EXTRUDER EXTRUDER=" \o persisted.v.active_extruder.v \o "\n">>
           \o (IF chamber_heater_name # "" /\ persisted.v.chamber_temp.v > 0
               THEN <<"SET_HEATER_TEMPERATURE HEATER=" \o chamber_heater_name
                      \o " TARGET=" \o FormatNumber(persisted.v.chamber_temp) \o "\n">>
               ELSE << >>)
           \o <<"G1 Z" \o FormatFixed3(persisted.v.position.v.z)
                \o " F3000 ; Restore Z height\n">>
           \o [i \in 1 .. Len(restart_gcode_lines) |-> restart_gcode_lines[i] \o "\n"]
           \o <<PLACEHOLDER \o "\n">>)

\* C8 (as claimed): for every configuration, an empty list of on-restart
\* lines included, a successfully rewritten file begins with the claimed head.
C8_PreambleForEveryConfiguration ==
    Rewritten /\ ~notified.seen => StartsWith(files[GcodeFile].data, ClaimedHead)

-----------------------------------------------------------------------------
(* Properties of the delay selector *)

\* C10: for a fixed save_interval and history_size, a call with a lag no
\* smaller than the previous call's returns a delay no smaller, and no call
\* returns more than history_size - 1; negative lags included.
C10_DelayMonotoneAndCapped ==
    /\ [](delay_call.called => delay_call.delay <= history_size - 1)
    /\ [][(/\ delay_call.called /\ delay_call.lag.ok /\ delay_call'.lag.ok
           /\ delay_call.lag.v <= delay_call'.lag.v)
          => delay_call.delay <= delay_call'.delay]_vars

\* C10 witness: a lag needing more intervals than the history can cover was
\* capped at history_size - 1.
C10_Witness ==
    /\ delay_call.called
    /\ delay_call.lag.ok
    /\ save_interval > 0
    /\ needed_intervals(delay_call.lag.v, save_interval) > history_size - 1
    /\ delay_call.delay = history_size - 1

-----------------------------------------------------------------------------
(* Properties of the adaptive interval *)

\* C11 (as claimed): every returned interval is >= 3.0 s, and >= 5.0 s when
\* the last extruder change is at least 5 s ago, the call that fails
\* internally and returns the base interval included.
C11_IntervalFloor ==
    interval_call.called
        => /\ interval_call.result >= 3 * IntervalScale
           /\ interval_call.since >= 5 => interval_call.result >= 5 * IntervalScale

-----------------------------------------------------------------------------
(* Properties of the validator *)

\* The range rules, in the order of the checks.
RangeRules == <<"total_size", "progress_pct", "layer", "hotend_temp", "bed_temp",
                "chamber_temp", "active_extruder">>

\* The field a range rule reads is present and of its type.
Readable(r, s) ==
    /\ s.ty = "dict"
    /\ IF r \in {"total_size", "progress_pct"}
       THEN /\ "file_progress" \in DOMAIN s.v
            /\ s.v.file_progress.ty = "dict"
            /\ r \in DOMAIN s.v.file_progress.v
            /\ IsInstance(s.v.file_progress.v[r], NUMBER)
       ELSE /\ r \in DOMAIN s.v
            /\ IsInstance(s.v[r], IF r = "active_extruder" THEN {"str"} ELSE NUMBER)

\* The documented range of the field: progress 0..100 (in hundredths),
\* total_size >= 0, layer >= 0, hot-end in [-273.15, 500], bed in
\* [-273.15, 200], chamber in [-273.15, 100], tool in the configured set.
InRange(r, s) ==
    CASE r = "total_size" -> s.v.file_progress.v.total_size.v >= 0
      [] r = "progress_pct" -> /\ 0 <= s.v.file_progress.v.progress_pct.v
                               /\ s.v.file_progress.v.progress_pct.v <= 100 * 100
      [] r = "layer" -> s.v.layer.v >= 0
      [] r = "hotend_temp" -> -27315 <= s.v.hotend_temp.v * 100 /\ s.v.hotend_temp.v <= 500
      [] r = "bed_temp" -> -27315 <= s.v.bed_temp.v * 100 /\ s.v.bed_temp.v <= 200
      [] r = "chamber_temp" -> -27315 <= s.v.chamber_temp.v * 100 /\ s.v.chamber_temp.v <= 100
      [] r = "active_extruder" -> s.v.active_extruder.v \in extruders

\* The error reason naming the rule.
RangeReason(r, s) ==
    CASE r = "total_size" -> "File size cannot be negative"
      [] r = "progress_pct" -> "Progress percentage must be between 0 and 100"
      [] r = "layer" -> "Layer number cannot be negative"
      [] r = "hotend_temp" -> "Hotend temperature out of reasonable range"
      [] r = "bed_temp" -> "Bed temperature out of reasonable range"
      [] r = "chamber_temp" -> "Chamber temperature out of reasonable range"
      [] r = "active_extruder" -> "Active extruder " \o s.v.active_extruder.v
                                      \o " not in configured extruders list"

\* The required fields are present and correctly typed, nested ones included.
WellTyped(s) ==
    /\ s.ty = "dict"
    /\ \A i \in 1 .. Len(required_fields) : FieldError(s.v, required_fields[i]) = ""

\* The range rules the snapshot breaks.
OutOfRange(s) == {i \in 1 .. Len(RangeRules) : ~InRange(RangeRules[i], s)}

Accepted == [is_valid |-> TRUE, error_message |-> PyNone, raised |-> FALSE]

Rejected(reason) == [is_valid |-> FALSE, error_message |-> PyStr(reason), raised |-> FALSE]

\* C17: the validator accepts every snapshot whose required fields are
\* present, correctly typed and within the documented ranges, and rejects every
\* snapshot with exactly one field out of range, with the reason of that
\* field's rule.
C17_ValidatorSound ==
    (verify_call.called /\ WellTyped(verify_call.state))
        => /\ OutOfRange(verify_call.state) = {} => verify_call.result = Accepted
           /\ \A i \in 1 .. Len(RangeRules) :
                  OutOfRange(verify_call.state) = {i}
                      => verify_call.result
                             = Rejected(RangeReason(RangeRules[i], verify_call.state))

\* Every rule the value breaks on its own, as <<position in the check order,
\* reason>>: not a dict, the required fields in their order, the range rules.
Broken(s) ==
    IF s.ty # "dict" THEN {<<0, "State must be a dictionary">>}
    ELSE {<<i, FieldError(s.v, required_fields[i])>> :
              i \in {j \in 1 .. Len(required_fields) :
                         FieldError(s.v, required_fields[j]) # ""}}
         \cup {<<Len(required_fields) + i, RangeReason(RangeRules[i], s)>> :
                  i \in {j \in 1 .. Len(RangeRules) :
                             Readable(RangeRules[j], s) /\ ~InRange(RangeRules[j], s)}}

\* C18: for every input (values that are no dict, missing fields, wrongly
\* typed fields and nested values) the validator does not raise, returns
\* (False, reason) with the reason of the first rule broken in the check order,
\* (True, None) when none is, and changes no field of the object.
C18_FirstViolationNeverRaises ==
    /\ [](verify_call.called
            => /\ ~verify_call.result.raised
               /\ Broken(verify_call.state) = {} => verify_call.result = Accepted
               /\ \A b \in Broken(verify_call.state) :
                      (\A c \in Broken(verify_call.state) : b[1] <= c[1])
                          => verify_call.result = Rejected(b[2]))
    /\ [][verify_call' # verify_call
             => UNCHANGED <<fields, persisted, timers, last_save>>]_vars

-----------------------------------------------------------------------------
(* Properties of the callbacks step by step *)

\* The step the callback is at.
AtStep(r) == StepsOf(r.callback)[r.at]

\* The callback has performed the store command of its save.
WriteDone(r) == \E k \in 1 .. r.at - 1 : StepsOf(r.callback)[k] = "write"

\* The callbacks that are inside their save: entered and the store command
\* not yet performed.
Saving == {k \in 1 .. Len(running) : ~WriteDone(running[k]) /\ AtStep(running[k]) # "register"}

-----------------------------------------------------------------------------
(* Properties of a failed store write *)

\* The step is a save attempt whose store write fails.
StoreWriteFails == last_save'.outcome = "store_error" /\ faults' = faults + 1

\* A tick has attempted a save after MaxTime, or the attempt is no longer
\* due: a later save succeeded, or the snapshots collected are invalid.
Retried ==
    \/ _last_save_attempt > MaxTime
    \/ last_save.outcome = "saved"
    \/ _consecutive_failures > 0

\* C20: when the store write of a save fails, the stored checkpoint keeps
\* its value, last_save_time does not advance, the tick or handler ends as
\* usual (the tick returns a later wake time, the handler registers its timer),
\* and after a failure by MaxTime a later tick attempts the save again.
C20_FailedWriteIsRetried ==
    /\ [][StoreWriteFails
             => /\ persisted' = persisted
                /\ last_save_time' = last_save_time
                /\ IF IsTickStep
                   THEN \A i \in 1 .. Len(timers) :
                            timers'[i] # timers[i] => timers'[i] > now * IntervalScale
                   ELSE timers' = RegisterTimer]_vars
    /\ (last_save.outcome = "store_error" /\ now <= MaxTime) ~> Retried

\* A tick's store write failed, and a later tick attempted the save again
\* and succeeded.
C20_Witness ==
    /\ faults = 1
    /\ _last_save_attempt = now
    /\ now > MaxTime
    /\ last_save.outcome = "saved"
    /\ last_save_time = now

-----------------------------------------------------------------------------
(* Properties of the job's start *)

\* The tick observes the job going from inactive to active.
StartObserved == IsTickStep /\ ~is_active /\ is_active'

\* C22: after a tick that observes the job going from inactive to active,
\* with recovery enabled or not, the history holds nothing but the snapshot
\* of that tick and the stored consecutive-failure counter is 0 (1 when
\* recovery is enabled and the snapshot of that tick itself was invalid).
C22_StartClearsHistoryAndCounter ==
    [][StartObserved
          => /\ Len(state_history') <= 1
             /\ \A k \in 1 .. Len(state_history') :
                    state_history'[k].v.collection_time.v = now
             /\ _consecutive_failures'
                    \in {0} \cup (IF power_loss_recovery_enabled
                                     /\ state_history' = << >> THEN {1} ELSE {})]_vars

-----------------------------------------------------------------------------
(* Properties of the tick's counter and decisions *)

\* C23: after a tick that persists a checkpoint, last_save_time is the time
\* of that save and the stored consecutive-failure counter is 0, also when the
\* snapshot collected in that tick was invalid.
C23_SavingTickResetsCounter ==
    [][(IsTickStep /\ last_save'.outcome = "saved")
          => /\ last_save_time' = now
             /\ _consecutive_failures' = 0]_vars

\* The tick ran to its end with the job printing, recovery enabled and
\* time-based saving on: it returns the adaptive interval, not the 1.0 s of
\* its early returns.
CompletedActiveTick ==
    /\ IsTickStep
    /\ printing /\ power_loss_recovery_enabled /\ time_based_enabled
    /\ \E i \in 1 .. Len(timers) :
          timers'[i] # timers[i] /\ timers'[i] > (now + 1) * IntervalScale

\* The tick appended no snapshot: the collector returned none, or the
\* snapshot failed validation.
NoNewSnapshot ==
    \/ state_history' = << >>
    \/ state_history'[Len(state_history')].v.collection_time.v # now

\* C24: a tick whose collector returns no snapshot counts as a failure: the
\* consecutive-failure counter is incremented, as it is for a snapshot that
\* fails validation, and the tick ends normally.
C24_CollectorFailureCounts ==
    [][(CompletedActiveTick /\ NoNewSnapshot)
          => _consecutive_failures' = (IF is_active THEN _consecutive_failures ELSE 0) + 1]_vars

\* The step is a layer change or an extruder activation handled while the
\* job is active (the events of the scheduler that answer nothing and are no
\* change of the job's state).
EventHandled ==
    /\ events' = events + 1
    /\ response' = NoResponse
    /\ printing' = printing
    /\ is_active

\* C25: on a layer change or extruder activation while the job is active
\* (recovery enabled, no resume in progress), the handler collects a snapshot
\* of its own and appends it to the history, makes a save attempt, and leaves a
\* tick due at once.
C25_HandlerCollectsAndSaves ==
    [][(EventHandled /\ power_loss_recovery_enabled /\ ~resuming_print)
          => /\ state_history' # << >>
             /\ state_history'[Len(state_history')].v.collection_time.v = now
             /\ last_save'.outcome \notin {"none", "skipped"}
             /\ time_based_enabled
                    => \E i \in 1 .. Len(timers') : timers'[i] <= now * IntervalScale]_vars

-----------------------------------------------------------------------------
(* Properties of the tick's back-off *)

\* The tick of this step made a save attempt.
TickSaved == last_save'.outcome # "none"

\* C26: a tick that ends with a failure count f > 0 makes no save attempt when
\* fewer than min(30, 2^f) seconds have passed since the last save attempt of
\* a tick; a tick stamps the last-save-attempt time with its own time exactly
\* when it makes a save attempt, and no other step changes that time.
C26_BackoffSuppressesSave ==
    [][/\ IsTickStep
           => /\ (/\ _consecutive_failures' > 0
                  /\ now - _last_save_attempt < Min(30, 2 ^ _consecutive_failures'))
                     => ~TickSaved /\ persisted' = persisted
              /\ IF TickSaved
                 THEN _last_save_attempt' = now
                 ELSE _last_save_attempt' = _last_save_attempt
       /\ ~IsTickStep => _last_save_attempt' = _last_save_attempt]_vars

\* A tick has just been held back by the back-off alone: the time-based
\* decision was to save, the failure count is positive, and an earlier tick's
\* save attempt is less than the back-off ago.
C26_Witness ==
    /\ is_active /\ printing /\ power_loss_recovery_enabled /\ time_based_enabled
    /\ _consecutive_failures > 0
    /\ _last_save_attempt > 0 /\ last_save_time > 0
    /\ now - _last_save_attempt < Min(30, 2 ^ _consecutive_failures)
    /\ last_save = NoAttempt
    /\ \E i \in 1 .. Len(timers) :
          /\ timers[i] = now * IntervalScale
                            + OptimizeBackgroundInterval(save_interval, now,
                                                         _last_extruder_change_time, state_history)
          /\ (now - last_save_time) * IntervalScale >= timers[i] - now * IntervalScale

-----------------------------------------------------------------------------
(* Properties of the tick's wake time and time-based decision *)

\* The adaptive interval of a tick of this step, which has left the history
\* state_history'.
AdaptiveInterval ==
    OptimizeBackgroundInterval(save_interval, now, _last_extruder_change_time, state_history')

-----------------------------------------------------------------------------
(* Properties of the delay selector's value *)

\* C28: a call whose lag lookups succeed, with a positive save_interval,
\* returns min(history_size - 1, max(1, floor(lag / save_interval) + 1)),
\* whatever the lag's sign and whether or not it is a multiple of the interval.
C28_DelayFormula ==
    (delay_call.called /\ delay_call.lag.ok /\ save_interval > 0)
        => delay_call.delay
              = Min(history_size - 1, Max(1, (delay_call.lag.v \div save_interval) + 1))

\* A call with a negative lag that is no multiple of the interval, where
\* int() and floor() differ, has returned 1.
C28_Witness ==
    /\ delay_call.called /\ delay_call.lag.ok /\ save_interval > 1
    /\ delay_call.lag.v < 0
    /\ delay_call.lag.v % save_interval # 0
    /\ (delay_call.lag.v \div save_interval) # TruncDiv(delay_call.lag.v, save_interval)
    /\ delay_call.delay = 1

\* C29: a call whose lag lookups fail, or whose save_interval is 0, returns
\* the configured save_delay, a value in 0 .. history_size - 1; the call
\* returns for every lag input.
C29_DelayFallback ==
    /\ \A lag \in DelayLags : ENABLED _calculate_optimal_delay(lag)
    /\ (delay_call.called /\ (~delay_call.lag.ok \/ save_interval = 0))
          => /\ delay_call.delay = save_delay
             /\ delay_call.delay \in 0 .. history_size - 1

\* A call with save_interval 0 and the lag available has returned a
\* save_delay of 0, which no computed delay equals.
C29_Witness ==
    /\ delay_call.called /\ delay_call.lag.ok /\ save_interval = 0
    /\ save_delay = 0 /\ delay_call.delay = 0

-----------------------------------------------------------------------------
(* Properties of the adaptive interval's value *)

\* How many of (position delta > 10, hot-end temperature delta > 5) hold
\* between the two newest snapshots of hist; 0 with fewer than two snapshots.
ActivityCount(hist) ==
    IF Len(hist) >= 2
    THEN LET old == hist[Len(hist) - 1]
             new == hist[Len(hist)]
         IN  (IF pos_change(old, new) > 10 THEN 1 ELSE 0)
               + (IF temp_change(old, new) > 5 THEN 1 ELSE 0)
    ELSE 0

\* max(floor, base * reduction * 0.75^n) times IntervalScale, reduction given
\* in two-hundredths and floor in seconds.
ClaimedInterval(base, reduction, n, floor) ==
    Max(floor * IntervalScale, (base * reduction * 16 * (3 ^ n)) \div (4 ^ n))

\* C30, in behaviours where no extruder is ever activated: the adaptive
\* interval a tick waits for is max(5.0, base * 0.75^n), with no tool-change
\* reduction and the floor of 5.0, n counting the position and temperature
\* deltas between the two newest snapshots.
C30_IntervalWithoutToolChange ==
    [][(/\ IsTickStep /\ faults' = faults
        /\ printing /\ power_loss_recovery_enabled /\ time_based_enabled)
          => \A i \in 1 .. Len(timers) :
                timers'[i] # timers[i]
                    => timers'[i] - now * IntervalScale
                          = ClaimedInterval(save_interval, 200, ActivityCount(state_history'), 5)]_vars

-----------------------------------------------------------------------------
(* Properties of the history's entries *)

\* C31: no step changes a snapshot of the history: a step that is no tick
\* leaves the history as it was, and after a tick every entry is an entry the
\* history held before, or the snapshot the tick has just collected, exactly
\* as the collector returned it (without the key a save attaches).
C31_HistoryEntriesImmutable ==
    [][/\ ~IsTickStep => state_history' = state_history
       /\ IsTickStep
              => \A k \in 1 .. Len(state_history') :
                    \/ \E j \in 1 .. Len(state_history) : state_history'[k] = state_history[j]
                    \/ /\ k = Len(state_history')
                       /\ state_history'[k].v.collection_time.v = now
                       /\ state_history'[k] = AsCollected(state_history'[k])]_vars

-----------------------------------------------------------------------------
(* Properties of the collector *)

\* Some provider queried by the call failed: one of the status providers, or
\* a configured fan.
ProviderFailed(rd) == ~rd.ok \/ \E f \in DOMAIN rd.fans : ~rd.fans[f].ok

\* C32: a call in which any provider fails, a configured fan included,
\* returns None; a returned snapshot has a fan_speeds entry for every
\* configured fan.
C32_CollectorAllOrNothing ==
    collect_call.called
        => /\ ProviderFailed(collect_call.rd) => collect_call.state = PyNone
           /\ collect_call.state # PyNone
                  => DOMAIN collect_call.state.v.fan_speeds.v = DOMAIN collect_call.rd.fans

\* C33: whatever file position and total size the progress provider
\* reports, the progress percentage of the collected snapshot lies in
\* [0, 100] (here in hundredths of a percent), and the validator does not
\* reject the snapshot for its progress percentage.
C33_ProgressWithinRange ==
    (collect_call.called /\ collect_call.state # PyNone)
        => /\ collect_call.state.v.file_progress.v.progress_pct.v \in 0 .. 100 * 100
           /\ VerifyError(collect_call.state) # "Progress percentage must be between 0 and 100"

-----------------------------------------------------------------------------
(* Properties of the rewrite's copy *)

\* The running counts through the end of each line of data.
LineEnds(data) ==
    {k \in 1 .. Len(data) : SubSeq(data, k, k) = "\n"} \cup (IF data = "" THEN {} ELSE {Len(data)})

\* The count through the end of the last line that ends below position; 0
\* when there is none.
SkippedThrough(data, position) ==
    LET below == {k \in LineEnds(data) : k < position}
    IN  IF below = {} THEN 0 ELSE CHOOSE k \in below : \A j \in below : j <= k

-----------------------------------------------------------------------------
(* Properties of the enabled flag *)

\* C35: as long as no event or command has arrived recovery is enabled, and
\* it stays as it is until a PLR_ENABLE or PLR_DISABLE command is handled: no
\* other step changes the flag.
C35_EnabledAtStartup ==
    [][/\ events = 0 => power_loss_recovery_enabled
       /\ ~(CommandStep("PLR_ENABLE") \/ CommandStep("PLR_DISABLE"))
             => power_loss_recovery_enabled' = power_loss_recovery_enabled]_vars

-----------------------------------------------------------------------------
(* Properties of the timer queue *)

\* C36: at most one invocation of _background_task is pending in the
\* reactor's timer queue, whatever ticks, layer changes and extruder
\* activations have been handled.
C36_OneTickPending == Len(timers) <= 1

-----------------------------------------------------------------------------
(* Properties of the original file's survival *)

\* Some file of the directory, under the canonical or the backup name, holds
\* data.
OnDisk(fs, data) == \E n \in FileNames : fs[n].exists /\ fs[n].data = data

\* C37: no resume, failed resume or completion notification loses the
\* original file: a non-empty original content (a rewritten file is none, it
\* holds the placeholder line) that is on disk before a step, under the
\* canonical or the backup name, is on disk after it.
C37_OriginalContentSurvives ==
    [][\A data \in Contents \ {""} : OnDisk(files, data) => OnDisk(files', data)]_vars

-----------------------------------------------------------------------------
(* Properties of the resume-in-progress flag *)

\* The most recent resume ended without starting the resumed job.
ResumeGaveUp ==
    last_resume.result \in {"no_state", "no_filename", "file_not_found",
                            "rename_error", "rolled_back"}

\* C38: after a resume that ended without starting the resumed job (no valid
\* checkpoint, no file name, missing file, or a failed rewrite) the
\* resume-in-progress flag is false.
C38_FailedResumeClearsFlag == ResumeGaveUp => ~resuming_print

-----------------------------------------------------------------------------
(* Properties of the history across jobs *)

\* The snapshot was collected during the job that is printing.
OfThisJob(state) == state.v.collection_time.v >= print_start_time

\* C39: a checkpoint persisted while a job is printing was collected during
\* that job, and a tick of a printing job in which nothing fails leaves no
\* snapshot of an earlier job in the history, also when the earlier job ended
\* and this one started between two ticks.
C39_NoSnapshotOfEarlierJob ==
    [][/\ (printing /\ persisted' # persisted /\ persisted'.ty = "dict")
             => OfThisJob(persisted')
       /\ (IsTickStep /\ printing /\ faults' = faults)
             => \A k \in 1 .. Len(state_history') : OfThisJob(state_history'[k])]_vars

-----------------------------------------------------------------------------
(* Properties of the tracked layer *)

\* C40: whatever layer changes have been handled, those without a LAYER
\* parameter included, last_layer is an int >= 0.
C40_LayerIndexIsNatural == last_layer.ty = "int" /\ last_layer.v >= 0

====
